---- MODULE Spec2Model ----
(***************************************************************************)
(* Model of the ESG scoring and aggregation engine of agri-esg-dashboard:  *)
(*   utils/calculations.py   (compute_kpis, aggregate_to_farm_level,       *)
(*                            percentile_score, compute_esg_scores)        *)
(*   agri_esg_dashboard.py   (compute_kpis, percentile_score,              *)
(*                            compute_esg_scores with its own grouping)    *)
(*   farm_esg_analysis.py    (threshold scorer, per-row compute_kpis)      *)
(*                                                                         *)
(* Numbers are exact rationals <<n, d>> with d >= 0.  The IEEE specials of *)
(* the pandas float columns are the pairs with d = 0: <<0,0>> is NaN ("no  *)
(* value"), <<1,0>> is +inf and <<-1,0>> is -inf.                          *)
(***************************************************************************)
EXTENDS Integers, Sequences, FiniteSets, TLC

VARIABLES
  pc,                \* position in the pipeline under analysis
  series,            \* percentile_score: the metric column passed in
  higher_is_better,  \* percentile_score: the direction flag
  score,             \* percentile_score: the returned column
  columns,           \* column names of the uploaded table
  raw_df,            \* the uploaded table (sequence of rows)
  df,                \* the table returned by compute_kpis
  farm_df,           \* the table returned by aggregate_to_farm_level
  esg_df,            \* the table returned by compute_esg_scores
  raised,            \* the exception that ended the run, "" when none
  reported,          \* the column names shown in the missing-columns error
  filtered_esg,      \* app.py: the scored rows of the selected farm and year
  insights,          \* app.py: the list returned by generate_ai_insights
  optional_df,       \* merge_optional_data: <<>> for None, else <<the optional table>>
  merged,            \* the table returned by merge_optional_data
  sfi_plan,          \* the dict returned by _build_sfi_land_parcels
  results            \* the EmissionsResults returned by _calculate_emissions

vars == <<pc, series, higher_is_better, score, columns, raw_df, df, farm_df,
          esg_df, raised, reported, filtered_esg, insights, optional_df, merged,
          sfi_plan, results>>

pctVars == <<series, higher_is_better, score>>
tableVars == <<columns, raw_df, df, farm_df, esg_df, raised>>
pageVars == <<reported, filtered_esg, insights>>
mergeVars == <<optional_df, merged>>
reportVars == <<sfi_plan, results>>

-----------------------------------------------------------------------------
(* Bounds of the model *)

MaxN == 3
MaxRows == 3

-----------------------------------------------------------------------------
(* Float arithmetic on exact rationals *)

Abs(x) == IF x < 0 THEN 0 - x ELSE x

Sign(x) == IF x < 0 THEN 0 - 1 ELSE IF x > 0 THEN 1 ELSE 0

RECURSIVE GCD(_, _)
GCD(a, b) == IF b = 0 THEN a ELSE GCD(b, a % b)

Norm(n, d) ==
  IF d = 0 THEN <<Sign(n), 0>>
  ELSE LET s == IF d < 0 THEN 0 - 1 ELSE 1
           g == GCD(Abs(n), Abs(d))
       IN  <<(s * n) \div g, (s * d) \div g>>

NaN == <<0, 0>>
Inf == <<1, 0>>
Num(k) == <<k, 1>>

IsNaN(a) == a = NaN
NotNa(a) == a # NaN
IsFinite(a) == a[2] # 0

Add(a, b) ==
  IF a[2] = 0 /\ b[2] = 0
  THEN (IF a = b THEN a ELSE NaN)
  ELSE Norm(a[1] * b[2] + b[1] * a[2], a[2] * b[2])

Mul(a, b) == Norm(a[1] * b[1], a[2] * b[2])

Div(a, b) == Norm(a[1] * b[2], a[2] * b[1])

Sub(a, b) == Add(a, Mul(Num(0 - 1), b))

Lt(a, b) == a[1] * b[2] < b[1] * a[2]

Eq(a, b) == NotNa(a) /\ NotNa(b) /\ a = b

Le(a, b) == Lt(a, b) \/ Eq(a, b)

Ge(a, b) == Le(b, a)

(* numpy round(1): round half to even at one decimal place *)
Round1(a) ==
  IF a[2] = 0 THEN a
  ELSE LET t == 10 * a[1]
           q == t \div a[2]
           r == t % a[2]
           up == \/ 2 * r > a[2]
                 \/ (2 * r = a[2] /\ q % 2 = 1)
       IN  Norm(IF up THEN q + 1 ELSE q, 10)

-----------------------------------------------------------------------------
(* Series helpers (pandas Series as a sequence of floats) *)

Idx(s) == 1 .. Len(s)

DropNa(s) == {i \in Idx(s) : NotNa(s[i])}

NUnique(s) == Cardinality({s[i] : i \in DropNa(s)})

RECURSIVE SumSet(_, _)
SumSet(f, S) ==
  IF S = {} THEN Num(0)
  ELSE LET i == CHOOSE x \in S : TRUE
       IN  Add(f[i], SumSet(f, S \ {i}))

(* Series.sum / DataFrame.sum with skipna: NaN cells are left out, an     *)
(* empty selection sums to 0                                              *)
SumSkipNa(s) == SumSet(s, DropNa(s))

(* Series.mean / DataFrame.mean(axis=1) with skipna: NaN when nothing is  *)
(* left                                                                   *)
MeanSkipNa(s) ==
  IF DropNa(s) = {} THEN NaN
  ELSE Div(SumSkipNa(s), Num(Cardinality(DropNa(s))))

(* Series.rank(pct=True): average rank of ties over the non-NaN count;    *)
(* NaN keeps NaN                                                          *)
RankPct(s) ==
  [i \in Idx(s) |->
     IF IsNaN(s[i]) THEN NaN
     ELSE LET less == Cardinality({j \in DropNa(s) : Lt(s[j], s[i])})
              same == Cardinality({j \in DropNa(s) : s[j] = s[i]})
          IN  Norm(2 * less + same + 1, 2 * Cardinality(DropNa(s)))]

(* percentile_score with the direction flag ignored *)
percentile_score_nodir(s, hib) ==
  IF NUnique(s) <= 1
  THEN [i \in Idx(s) |-> Num(50)]
  ELSE [i \in Idx(s) |-> Round1(Mul(RankPct(s)[i], Num(100)))]

(* percentile_score whose no-variation test is < 1 instead of <= 1 *)
percentile_score_strict(s, hib) ==
  IF NUnique(s) < 1
  THEN [i \in Idx(s) |-> Num(50)]
  ELSE [i \in Idx(s) |->
          Round1(IF hib THEN Mul(RankPct(s)[i], Num(100))
                 ELSE Mul(Sub(Num(1), RankPct(s)[i]), Num(100)))]

(* percentile_score that scores a missing value 0 instead of leaving it out *)
percentile_score_fill0(s, hib) ==
  IF NUnique(s) <= 1
  THEN [i \in Idx(s) |-> Num(50)]
  ELSE [i \in Idx(s) |->
          IF IsNaN(s[i]) THEN Num(0)
          ELSE Round1(IF hib THEN Mul(RankPct(s)[i], Num(100))
                      ELSE Mul(Sub(Num(1), RankPct(s)[i]), Num(100)))]

(* percentile_score whose tied values are ranked in their order of         *)
(* appearance (rank(method="first")) instead of sharing the mean           *)
percentile_score_firstrank(s, hib) ==
  IF NUnique(s) <= 1
  THEN [i \in Idx(s) |-> Num(50)]
  ELSE LET ranks == [i \in Idx(s) |->
                       IF IsNaN(s[i]) THEN NaN
                       ELSE Norm(Cardinality({j \in DropNa(s) :
                                               \/ Lt(s[j], s[i])
                                               \/ s[j] = s[i] /\ j <= i}),
                                 Cardinality(DropNa(s)))]
       IN  [i \in Idx(s) |->
              Round1(IF hib THEN Mul(ranks[i], Num(100))
                     ELSE Mul(Sub(Num(1), ranks[i]), Num(100)))]

(* percentile_score with the two directions exchanged *)
percentile_score_flipped(s, hib) ==
  IF NUnique(s) <= 1
  THEN [i \in Idx(s) |-> Num(50)]
  ELSE [i \in Idx(s) |->
          Round1(IF hib THEN Mul(Sub(Num(1), RankPct(s)[i]), Num(100))
                 ELSE Mul(RankPct(s)[i], Num(100)))]

(* percentile_score whose tied values all take the lowest of their rank     *)
(* positions (rank(method="min")) instead of the mean                      *)
percentile_score_minrank(s, hib) ==
  IF NUnique(s) <= 1
  THEN [i \in Idx(s) |-> Num(50)]
  ELSE LET ranks == [i \in Idx(s) |->
                       IF IsNaN(s[i]) THEN NaN
                       ELSE Norm(Cardinality({j \in DropNa(s) : Lt(s[j], s[i])}) + 1,
                                 Cardinality(DropNa(s)))]
       IN  [i \in Idx(s) |->
              Round1(IF hib THEN Mul(ranks[i], Num(100))
                     ELSE Mul(Sub(Num(1), ranks[i]), Num(100)))]

percentile_score(s, hib) ==
  IF NUnique(s) <= 1
  THEN [i \in Idx(s) |-> Num(50)]
  ELSE LET ranks == RankPct(s)
       IN  [i \in Idx(s) |->
              Round1(IF hib THEN Mul(ranks[i], Num(100))
                     ELSE Mul(Sub(Num(1), ranks[i]), Num(100)))]

-----------------------------------------------------------------------------
(* Specification SpecPct: percentile_score applied to one metric column *)

ColumnValues == {NaN, Num(100), Num(200), Num(300)}

RECURSIVE SeqsUpTo(_, _)
SeqsUpTo(S, n) ==
  IF n = 0 THEN {<<>>}
  ELSE LET shorter == SeqsUpTo(S, n - 1)
       IN  shorter \cup {Append(s, x) : s \in {t \in shorter : Len(t) = n - 1}, x \in S}

IdlePage ==
  /\ reported = {}
  /\ filtered_esg = <<>>
  /\ insights = <<>>

(* no call of merge_optional_data *)
IdleMerge ==
  /\ optional_df = <<>>
  /\ merged = <<>>

(* no call of the report engine *)
IdleReport ==
  /\ sfi_plan = <<>>
  /\ results = <<>>

InitPct ==
  /\ pc = "pct_call"
  /\ series \in SeqsUpTo(ColumnValues, MaxN)
  /\ higher_is_better \in BOOLEAN
  /\ score = <<>>
  /\ columns = {}
  /\ raw_df = <<>>
  /\ df = <<>>
  /\ farm_df = <<>>
  /\ esg_df = <<>>
  /\ raised = ""
  /\ IdlePage
  /\ IdleMerge
  /\ IdleReport

PercentileScore ==
  /\ pc = "pct_call"
  /\ score' = percentile_score(series, higher_is_better)
  /\ pc' = "pct_done"
  /\ UNCHANGED <<series, higher_is_better, tableVars, pageVars, mergeVars, reportVars>>

NextPct == PercentileScore

SpecPct == InitPct /\ [][NextPct]_vars

-----------------------------------------------------------------------------
(* Table helpers (pandas DataFrame as a sequence of rows, a row as a       *)
(* record keyed by column name; text cells are strings and a missing text  *)
(* cell is NoText)                                                         *)

NoText == "<missing>"

Ext(r, e) == [f \in DOMAIN r \cup DOMAIN e |-> IF f \in DOMAIN e THEN e[f] ELSE r[f]]

Restrict(r, cols) == [f \in cols |-> r[f]]

Col(t, c) == [i \in Idx(t) |-> t[i][c]]

MinOf(S) == CHOOSE x \in S : \A y \in S : x <= y

(* a call whose assignments all land in the table the caller passed *)
CallerTable_nocopy(t, written, copied) == written

(* the table object the caller passed, as it is after the call. A function *)
(* body assigns columns to the object its local name is bound to: after    *)
(* df = df.copy() or result = df.copy() that object is a copy and the      *)
(* caller's table keeps its value; without the copy the assignments land   *)
(* in the caller's table. written is the table the assignments produce (t  *)
(* itself for a body that only reads: groupby, agg, merge)                 *)
CallerTable(t, written, copied) == IF copied THEN t ELSE written

(* Series.replace(0, np.nan) *)
ZeroToNaN(x) == IF x = Num(0) THEN NaN ELSE x

(* a group sum in which one missing cell makes the whole sum missing *)
GroupSum_propagating(t, c, G) == SumSet(Col(t, c), G)

(* a group aggregate that takes the first non-missing cell of the group *)
GroupSum_first(t, c, G) ==
  LET present == {i \in G : NotNa(t[i][c])}
  IN  IF present = {} THEN Num(0) ELSE t[MinOf(present)][c]

(* groupby(...)[c].sum(): NaN cells skipped, 0 when nothing is left *)
GroupSum(t, c, G) == SumSet(Col(t, c), {i \in G : NotNa(t[i][c])})

(* a group mean in which a missing cell counts as a zero *)
GroupMean_zerofilled(t, c, G) ==
  Div(SumSet(Col(t, c), {i \in G : NotNa(t[i][c])}), Num(Cardinality(G)))

(* groupby(...)[c].mean(): NaN cells skipped, NaN when nothing is left *)
GroupMean(t, c, G) ==
  LET present == {i \in G : NotNa(t[i][c])}
  IN  IF present = {} THEN NaN
      ELSE Div(SumSet(Col(t, c), present), Num(Cardinality(present)))

(* groupby(...)[c].first(): first non-null cell of the group *)
GroupFirst(t, c, G) ==
  LET present == {i \in G : t[i][c] # NoText}
  IN  IF present = {} THEN NoText ELSE t[MinOf(present)][c]

(* str.lower() on the text values that occur in the model *)
Lower(x) ==
  CASE x = "Yes" -> "yes"
    [] x = "YES" -> "yes"
    [] x = "TRUE" -> "true"
    [] x = "True" -> "true"
    [] x = "No" -> "no"
    [] x = "Y" -> "y"
    [] x = "Organic" -> "organic"
    [] x = "LEAF Marque" -> "leaf marque"
    [] x = "Red Tractor" -> "red tractor"
    [] x = "GlobalGAP" -> "globalgap"
    [] x = "None" -> "none"
    [] OTHER -> x

(* the keywords found by Python's "in" inside the lower-cased texts that   *)
(* occur in the model                                                      *)
Contains(text, word) ==
  word \in (CASE text = "organic" -> {"organic"}
             [] text = "leaf marque" -> {"leaf"}
             [] text = "red tractor" -> {"red"}
             [] OTHER -> {})

(* Series.astype(str): a missing cell becomes the text "nan" *)
AsStr(x) == IF x = NoText THEN "nan" ELSE x

YesWords == {"yes", "true", "1"}

-----------------------------------------------------------------------------
(* agri_esg_dashboard.py *)

EF_N == Norm(55, 10)
EF_DIESEL == Norm(27, 10)
EF_ELEC == Norm(5, 10)

DashRequired ==
  {"organisation_name", "farm_id", "country", "year", "crop", "area_ha",
   "yield_tonnes", "fertilizer_n_kg", "diesel_litres", "electricity_kwh",
   "water_m3", "workers_total", "workers_female", "accidents_count"}

GovColumnList ==
  <<"certification", "farm_safety_policy", "grievance_mechanism",
    "pesticide_handling_training", "living_wage_paid">>

KpiRowDashboard(r) ==
  LET area == ZeroToNaN(r.area_ha)
      yld == ZeroToNaN(r.yield_tonnes)
      workers == ZeroToNaN(r.workers_total)
      emissions_fertilizer == Mul(r.fertilizer_n_kg, EF_N)
      emissions_diesel == Mul(r.diesel_litres, EF_DIESEL)
      emissions_electric == Mul(r.electricity_kwh, EF_ELEC)
      total == Add(Add(emissions_fertilizer, emissions_diesel), emissions_electric)
  IN  Ext(r, [area_ha |-> area,
              yield_tonnes |-> yld,
              workers_total |-> workers,
              yield_per_ha |-> Div(yld, area),
              n_per_ha |-> Div(r.fertilizer_n_kg, area),
              water_per_tonne |-> Div(r.water_m3, yld),
              emissions_fertilizer |-> emissions_fertilizer,
              emissions_diesel |-> emissions_diesel,
              emissions_electric |-> emissions_electric,
              total_emissions |-> total,
              emissions_per_tonne |-> Div(total, yld),
              emissions_per_ha |-> Div(total, area),
              female_share |-> Div(r.workers_female, workers),
              accidents_per_100_workers |->
                 Mul(Div(r.accidents_count, workers), Num(100))])

compute_kpis_dashboard(t) == [i \in Idx(t) |-> KpiRowDashboard(t[i])]

FarmIds == <<"F1", "F2", "F3">>

(* groupby("farm_id"): one group per key present, keys sorted, rows whose  *)
(* key is missing dropped                                                  *)
GroupKeysDashboard(t) ==
  SelectSeq(FarmIds, LAMBDA k : \E i \in Idx(t) : t[i].farm_id = k)

GroupOf(t, k) == {i \in Idx(t) : t[i].farm_id = k}

GovRate(t, c, G) ==
  Norm(Cardinality({i \in G : Lower(AsStr(t[i][c])) \in YesWords}), Cardinality(G))

GroupedRowDashboard(t, k, gov_cols) ==
  LET G == GroupOf(t, k)
  IN  Ext([farm_id |-> k,
           organisation |-> GroupFirst(t, "organisation_name", G),
           country |-> GroupFirst(t, "country", G),
           crop |-> GroupFirst(t, "crop", G),
           area_ha |-> GroupSum(t, "area_ha", G),
           yield_tonnes |-> GroupSum(t, "yield_tonnes", G),
           total_emissions |-> GroupSum(t, "total_emissions", G),
           emissions_per_ha |-> GroupMean(t, "emissions_per_ha", G),
           emissions_per_tonne |-> GroupMean(t, "emissions_per_tonne", G),
           n_per_ha |-> GroupMean(t, "n_per_ha", G),
           water_per_tonne |-> GroupMean(t, "water_per_tonne", G),
           yield_per_ha |-> GroupMean(t, "yield_per_ha", G),
           female_share |-> GroupMean(t, "female_share", G),
           accidents_per_100_workers |-> GroupMean(t, "accidents_per_100_workers", G),
           workers_total |-> GroupSum(t, "workers_total", G),
           accidents_count |-> GroupSum(t, "accidents_count", G)],
          [c \in gov_cols |-> GovRate(t, c, G)])

(* Composite with the Environment and Social weights exchanged *)
Composite_swapped(e, s, g) ==
  Add(Add(Mul(e, Norm(3, 10)), Mul(s, Norm(5, 10))), Mul(g, Norm(2, 10)))

Composite(e, s, g) ==
  Add(Add(Mul(e, Norm(5, 10)), Mul(s, Norm(3, 10))), Mul(g, Norm(2, 10)))

compute_esg_scores_dashboard(t, cols) ==
  LET gov_list == SelectSeq(GovColumnList, LAMBDA c : c \in cols)
      gov_cols == {gov_list[j] : j \in Idx(gov_list)}
      keys == GroupKeysDashboard(t)
      grouped == [n \in Idx(keys) |-> GroupedRowDashboard(t, keys[n], gov_cols)]
      env1 == percentile_score(Col(grouped, "emissions_per_ha"), FALSE)
      env2 == percentile_score(Col(grouped, "emissions_per_tonne"), FALSE)
      env3 == percentile_score(Col(grouped, "n_per_ha"), FALSE)
      env4 == percentile_score(Col(grouped, "water_per_tonne"), FALSE)
      soc1 == percentile_score(Col(grouped, "female_share"), TRUE)
      soc2 == percentile_score(Col(grouped, "accidents_per_100_workers"), FALSE)
      gov == [j \in Idx(gov_list) |-> percentile_score(Col(grouped, gov_list[j]), TRUE)]
      E_score == [n \in Idx(grouped) |-> MeanSkipNa(<<env1[n], env2[n], env3[n], env4[n]>>)]
      S_score == [n \in Idx(grouped) |-> MeanSkipNa(<<soc1[n], soc2[n]>>)]
      G_score == [n \in Idx(grouped) |->
                    IF gov_list # <<>>
                    THEN MeanSkipNa([j \in Idx(gov_list) |-> gov[j][n]])
                    ELSE Num(50)]
  IN  [n \in Idx(grouped) |->
         Ext(grouped[n],
             [E_score |-> E_score[n],
              S_score |-> S_score[n],
              G_score |-> G_score[n],
              ESG_score |-> Composite(E_score[n], S_score[n], G_score[n])])]

-----------------------------------------------------------------------------
(* Specification SpecDash: agri_esg_dashboard.py, an uploaded table run    *)
(* through compute_kpis and compute_esg_scores                             *)

DashSamples ==
  { [organisation_name |-> "Org1", country |-> "UK", crop |-> "Wheat", year |-> Num(2023),
     area_ha |-> Num(10), yield_tonnes |-> Num(40), fertilizer_n_kg |-> Num(100),
     diesel_litres |-> Num(50), electricity_kwh |-> Num(200), water_m3 |-> Num(120),
     workers_total |-> Num(10), workers_female |-> Num(4), accidents_count |-> Num(1),
     certification |-> "Yes", farm_safety_policy |-> "yes", grievance_mechanism |-> "No",
     pesticide_handling_training |-> "TRUE", living_wage_paid |-> "1",
     certification_scheme |-> "Red Tractor"],
    [organisation_name |-> "Org2", country |-> "UK", crop |-> "Barley", year |-> Num(2023),
     area_ha |-> Num(20), yield_tonnes |-> Num(5), fertilizer_n_kg |-> Num(300),
     diesel_litres |-> Num(20), electricity_kwh |-> Num(100), water_m3 |-> Num(400),
     workers_total |-> Num(5), workers_female |-> Num(1), accidents_count |-> Num(0),
     certification |-> "No", farm_safety_policy |-> "No", grievance_mechanism |-> "yes",
     pesticide_handling_training |-> NoText, living_wage_paid |-> "No",
     certification_scheme |-> "Organic"],
    [organisation_name |-> NoText, country |-> "UK", crop |-> "Wheat", year |-> Num(2024),
     area_ha |-> Num(0), yield_tonnes |-> Num(0), fertilizer_n_kg |-> Num(50),
     diesel_litres |-> Num(10), electricity_kwh |-> Num(0), water_m3 |-> Num(10),
     workers_total |-> Num(0), workers_female |-> Num(0), accidents_count |-> Num(0),
     certification |-> NoText, farm_safety_policy |-> NoText, grievance_mechanism |-> NoText,
     pesticide_handling_training |-> NoText, living_wage_paid |-> NoText,
     certification_scheme |-> NoText],
    [organisation_name |-> "Org3", country |-> "IE", crop |-> "Oats", year |-> Num(2024),
     area_ha |-> Num(5), yield_tonnes |-> Num(10), fertilizer_n_kg |-> Num(20),
     diesel_litres |-> NaN, electricity_kwh |-> Num(40), water_m3 |-> Num(30),
     workers_total |-> Num(4), workers_female |-> Num(2), accidents_count |-> Num(0),
     certification |-> "Organic", farm_safety_policy |-> "True", grievance_mechanism |-> "YES",
     pesticide_handling_training |-> "No", living_wage_paid |-> "yes",
     certification_scheme |-> "None"] }

GovColumnChoices == {{}, {"certification"}, {"farm_safety_policy", "living_wage_paid"}}

DashRows(cols) ==
  {Restrict(Ext(s, [farm_id |-> FarmIds[f]]), cols) : s \in DashSamples, f \in Idx(FarmIds)}

IdlePct ==
  /\ series = <<>>
  /\ higher_is_better = TRUE
  /\ score = <<>>

(* uploads that lack required columns *)
DashMissingChoices == {{"water_m3"}, {"area_ha", "year"}}

(* rows of an upload with the given columns: every sample on every farm    *)
(* when the required columns are there, the samples of one farm otherwise  *)
DashUploadRows(cols) ==
  IF DashRequired \subseteq cols THEN DashRows(cols)
  ELSE {Restrict(Ext(s, [farm_id |-> FarmIds[1]]), cols) : s \in DashSamples}

InitDash ==
  /\ pc = "dash_uploaded"
  /\ columns \in {DashRequired \cup g : g \in GovColumnChoices}
                   \cup {DashRequired \ m : m \in DashMissingChoices}
  /\ raw_df \in SeqsUpTo(DashUploadRows(columns), MaxRows)
  /\ df = <<>>
  /\ farm_df = <<>>
  /\ esg_df = <<>>
  /\ raised = ""
  /\ IdlePage
  /\ IdleMerge
  /\ IdleReport
  /\ IdlePct

(* the required-column check of the script: st.error with the joined names *)
(* of the missing columns, then st.stop()                                  *)
ValidateDashboard ==
  /\ pc = "dash_uploaded"
  /\ LET missing == DashRequired \ columns
     IN  IF missing # {}
         THEN reported' = missing /\ pc' = "dash_stopped"
         ELSE reported' = reported /\ pc' = "dash_validated"
  /\ UNCHANGED <<tableVars, pctVars, filtered_esg, insights, mergeVars, reportVars>>

ComputeKpisDashboard ==
  /\ pc = "dash_validated"
  /\ df' = compute_kpis_dashboard(raw_df)
  /\ raw_df' = CallerTable(raw_df, compute_kpis_dashboard(raw_df), TRUE)
  /\ pc' = "dash_kpis"
  /\ UNCHANGED <<columns, farm_df, esg_df, raised, pctVars, pageVars,
               mergeVars, reportVars>>

ComputeEsgScoresDashboard ==
  /\ pc = "dash_kpis"
  /\ esg_df' = compute_esg_scores_dashboard(df, columns)
  /\ df' = CallerTable(df, df, FALSE)
  /\ pc' = "dash_scored"
  /\ UNCHANGED <<columns, raw_df, farm_df, raised, pctVars, pageVars, mergeVars, reportVars>>

NextDash == ValidateDashboard \/ ComputeKpisDashboard \/ ComputeEsgScoresDashboard

SpecDash == InitDash /\ [][NextDash]_vars

-----------------------------------------------------------------------------
(* utils/calculations.py, called from app.py *)

REQUIRED_INTERNAL_COLS ==
  {"farmer_name", "farm_name", "year", "month", "field_name", "field_area_ha",
   "crop_type", "fertiliser_kgN", "pesticide_applied_yes_no", "diesel_litres",
   "irrigation_applied_yes_no", "livestock_present_yes_no"}

yes_no_cols ==
  <<"pesticide_applied_yes_no", "irrigation_applied_yes_no",
    "livestock_present_yes_no", "sfi_soil_standard_yes_no",
    "sfi_nutrient_management_yes_no", "sfi_hedgerows_yes_no">>

YesNoSet == {yes_no_cols[j] : j \in Idx(yes_no_cols)}

BinaryName(c) ==
  CASE c = "pesticide_applied_yes_no" -> "pesticide_applied_yes_no_binary"
    [] c = "irrigation_applied_yes_no" -> "irrigation_applied_yes_no_binary"
    [] c = "livestock_present_yes_no" -> "livestock_present_yes_no_binary"
    [] c = "sfi_soil_standard_yes_no" -> "sfi_soil_standard_yes_no_binary"
    [] c = "sfi_nutrient_management_yes_no" -> "sfi_nutrient_management_yes_no_binary"
    [] c = "sfi_hedgerows_yes_no" -> "sfi_hedgerows_yes_no_binary"

(* a text cell that does not parse as a number, in a numeric column; the   *)
(* column is then read as text (object dtype)                              *)
BadText == <<0, 0 - 1>>

(* columns compute_kpis reads by name, df[...] raising KeyError when absent *)
KpiInputCols ==
  {"field_area_ha", "fertiliser_kgN", "fertiliser_kgP2O5", "fertiliser_kgK2O",
   "diesel_litres", "labour_hours"}

(* the statements of compute_kpis in source order: the columns each reads  *)
(* and whether it does arithmetic on them                                  *)
KpiStatements ==
  <<[reads |-> {"field_area_ha"}, arith |-> FALSE],
    [reads |-> {"fertiliser_kgN", "field_area_ha"}, arith |-> TRUE],
    [reads |-> {"fertiliser_kgP2O5", "field_area_ha"}, arith |-> TRUE],
    [reads |-> {"fertiliser_kgK2O", "field_area_ha"}, arith |-> TRUE],
    [reads |-> {"fertiliser_kgN"}, arith |-> TRUE],
    [reads |-> {"diesel_litres"}, arith |-> TRUE],
    [reads |-> {"labour_hours", "field_area_ha"}, arith |-> TRUE]>>

(* df[c] raises KeyError on an absent column; / and * raise TypeError on a *)
(* column that holds text                                                  *)
StatementRaises(t, cols, st) ==
  IF ~(st.reads \subseteq cols) THEN "KeyError"
  ELSE IF st.arith /\ \E c \in st.reads : \E i \in Idx(t) : t[i][c] = BadText
  THEN "TypeError"
  ELSE ""

(* the .str accessor raises AttributeError on a column that holds no text: *)
(* a non-empty column whose cells are all missing is read as float64       *)
StrAccessorFails(t, c) == Len(t) > 0 /\ \A i \in Idx(t) : t[i][c] = NoText

(* Series.str.lower().isin(['yes', 'true', '1']).astype(int) *)
YesNoBinary(x) == IF x # NoText /\ Lower(x) \in YesWords THEN Num(1) ELSE Num(0)

KpiRowCalc(r) ==
  LET area == ZeroToNaN(r.field_area_ha)
      emissions_fertilizer == Mul(r.fertiliser_kgN, EF_N)
      emissions_diesel == Mul(r.diesel_litres, EF_DIESEL)
      total == Add(emissions_fertilizer, emissions_diesel)
  IN  Ext(Ext(r, [field_area_ha |-> area,
                  n_per_ha |-> Div(r.fertiliser_kgN, area),
                  p_per_ha |-> Div(r.fertiliser_kgP2O5, area),
                  k_per_ha |-> Div(r.fertiliser_kgK2O, area),
                  emissions_fertilizer |-> emissions_fertilizer,
                  emissions_diesel |-> emissions_diesel,
                  total_emissions |-> total,
                  emissions_per_ha |-> Div(total, area),
                  labour_hours_per_ha |-> Div(r.labour_hours, area)]),
          [b \in {BinaryName(c) : c \in YesNoSet \cap DOMAIN r} |->
             LET c == CHOOSE x \in YesNoSet \cap DOMAIN r : BinaryName(x) = b
             IN  YesNoBinary(r[c])])

(* the exception compute_kpis ends with, "" when it returns: that of the   *)
(* first statement that raises                                             *)
compute_kpis_raises(t, cols) ==
  LET failing == {j \in Idx(KpiStatements) : StatementRaises(t, cols, KpiStatements[j]) # ""}
  IN  IF failing # {} THEN StatementRaises(t, cols, KpiStatements[MinOf(failing)])
      ELSE IF \E c \in YesNoSet \cap cols : StrAccessorFails(t, c) THEN "AttributeError"
      ELSE ""

compute_kpis(t) == [i \in Idx(t) |-> KpiRowCalc(t[i])]

(* string order of the text keys that occur in the model *)
TextOrder == <<"Alpha", "Beta", "F1", "F2", "F3", "Gamma">>

TextPos(x) == CHOOSE j \in Idx(TextOrder) : TextOrder[j] = x

FarmKey(r) == <<r.farm_id, r.farm_name, r.year>>

KeyPresent(k) == k[1] # NoText /\ k[2] # NoText /\ NotNa(k[3])

KeyLess(a, b) ==
  \/ TextPos(a[1]) < TextPos(b[1])
  \/ a[1] = b[1] /\ TextPos(a[2]) < TextPos(b[2])
  \/ a[1] = b[1] /\ a[2] = b[2] /\ Lt(a[3], b[3])

RECURSIVE SortKeys(_)
SortKeys(S) ==
  IF S = {} THEN <<>>
  ELSE LET m == CHOOSE x \in S : \A y \in S \ {x} : KeyLess(x, y)
       IN  <<m>> \o SortKeys(S \ {m})

(* groupby(['farm_id', 'farm_name', 'year']): one group per key present,   *)
(* keys sorted, rows with a missing key part dropped                       *)
GroupKeysCalc(t) == SortKeys({FarmKey(t[i]) : i \in {j \in Idx(t) : KeyPresent(FarmKey(t[j]))}})

AggInputCols ==
  {"field_area_ha", "n_per_ha", "p_per_ha", "k_per_ha", "emissions_per_ha",
   "labour_hours_per_ha", "total_emissions", "emissions_fertilizer",
   "emissions_diesel"} \cup {BinaryName(c) : c \in YesNoSet}

(* column names of the table compute_kpis returns *)
KpiColumns(cols) ==
  cols \cup {"n_per_ha", "p_per_ha", "k_per_ha", "emissions_fertilizer",
             "emissions_diesel", "total_emissions", "emissions_per_ha",
             "labour_hours_per_ha"}
       \cup {BinaryName(c) : c \in YesNoSet \cap cols}

aggregate_raises(kpi_cols) ==
  IF ~(({"farm_id", "farm_name", "year"} \cup AggInputCols) \subseteq kpi_cols)
  THEN "KeyError" ELSE ""

AggRowCalc(t, k) ==
  LET G == {i \in Idx(t) : FarmKey(t[i]) = k}
  IN  [farm_id |-> k[1],
       farm_name |-> k[2],
       year |-> k[3],
       total_farm_area_ha |-> GroupSum(t, "field_area_ha", G),
       n_per_ha |-> GroupMean(t, "n_per_ha", G),
       p_per_ha |-> GroupMean(t, "p_per_ha", G),
       k_per_ha |-> GroupMean(t, "k_per_ha", G),
       emissions_per_ha |-> GroupMean(t, "emissions_per_ha", G),
       labour_hours_per_ha |-> GroupMean(t, "labour_hours_per_ha", G),
       total_emissions |-> GroupSum(t, "total_emissions", G),
       emissions_fertilizer |-> GroupSum(t, "emissions_fertilizer", G),
       emissions_diesel |-> GroupSum(t, "emissions_diesel", G),
       pesticide_use_rate |-> GroupMean(t, "pesticide_applied_yes_no_binary", G),
       irrigation_rate |-> GroupMean(t, "irrigation_applied_yes_no_binary", G),
       livestock_presence |-> GroupMean(t, "livestock_present_yes_no_binary", G),
       sfi_soil_compliance_rate |-> GroupMean(t, "sfi_soil_standard_yes_no_binary", G),
       sfi_nutrient_compliance_rate |->
          GroupMean(t, "sfi_nutrient_management_yes_no_binary", G),
       sfi_hedgerow_compliance_rate |-> GroupMean(t, "sfi_hedgerows_yes_no_binary", G)]

aggregate_to_farm_level(t) ==
  LET keys == GroupKeysCalc(t)
  IN  [n \in Idx(keys) |-> AggRowCalc(t, keys[n])]

(* column names of the table aggregate_to_farm_level returns *)
AggColumns ==
  {"farm_id", "farm_name", "year", "total_farm_area_ha", "n_per_ha", "p_per_ha",
   "k_per_ha", "emissions_per_ha", "labour_hours_per_ha", "total_emissions",
   "emissions_fertilizer", "emissions_diesel", "pesticide_use_rate",
   "irrigation_rate", "livestock_presence", "sfi_soil_compliance_rate",
   "sfi_nutrient_compliance_rate", "sfi_hedgerow_compliance_rate"}

(* the metric lists of compute_esg_scores: column, direction, and whether  *)
(* the metric is used only when its column is in the table                 *)
EnvComponents ==
  <<[col |-> "emissions_per_ha", hib |-> FALSE, optional |-> FALSE],
    [col |-> "n_per_ha", hib |-> FALSE, optional |-> FALSE],
    [col |-> "pesticide_use_rate", hib |-> FALSE, optional |-> FALSE],
    [col |-> "hedgerow_length_m", hib |-> TRUE, optional |-> TRUE],
    [col |-> "wildflower_area_ha", hib |-> TRUE, optional |-> TRUE],
    [col |-> "soil_organic_matter_pct", hib |-> TRUE, optional |-> TRUE],
    [col |-> "cover_crop_planted_yes_no", hib |-> TRUE, optional |-> TRUE]>>

SocComponents ==
  <<[col |-> "labour_hours_per_ha", hib |-> TRUE, optional |-> FALSE],
    [col |-> "labour_hs_training_done_yes_no", hib |-> TRUE, optional |-> TRUE],
    [col |-> "worker_contracts_formalised_yes_no", hib |-> TRUE, optional |-> TRUE]>>

GovComponents ==
  <<[col |-> "sfi_soil_compliance_rate", hib |-> TRUE, optional |-> FALSE],
    [col |-> "sfi_nutrient_compliance_rate", hib |-> TRUE, optional |-> FALSE],
    [col |-> "sfi_hedgerow_compliance_rate", hib |-> TRUE, optional |-> FALSE],
    [col |-> "reduced_tillage_yes_no", hib |-> TRUE, optional |-> TRUE],
    [col |-> "integrated_pest_management_yes_no", hib |-> TRUE, optional |-> TRUE]>>

UsedComponents(comps, tcols) ==
  SelectSeq(comps, LAMBDA m : ~m.optional \/ m.col \in tcols)

(* mean(axis=1) over the percentile scores of the pillar's components *)
PillarMean(t, comps, n) ==
  MeanSkipNa([j \in Idx(comps) |-> percentile_score(Col(t, comps[j].col), comps[j].hib)[n]])

(* compute_esg_scores that returns only the rows whose composite is defined *)
compute_esg_scores_dropna(t, tcols) ==
  LET env == UsedComponents(EnvComponents, tcols)
      soc == UsedComponents(SocComponents, tcols)
      gov == UsedComponents(GovComponents, tcols)
      scored == [n \in Idx(t) |->
                   LET e == PillarMean(t, env, n)
                       sc == IF Len(soc) > 0 THEN PillarMean(t, soc, n) ELSE Num(50)
                       g == PillarMean(t, gov, n)
                   IN  Ext(t[n], [e_score |-> e, s_score |-> sc, g_score |-> g,
                                  esg_score |-> Composite(e, sc, g)])]
  IN  SelectSeq(scored, LAMBDA r : NotNa(r.esg_score))

compute_esg_scores(t, tcols) ==
  LET env == UsedComponents(EnvComponents, tcols)
      soc == UsedComponents(SocComponents, tcols)
      gov == UsedComponents(GovComponents, tcols)
  IN  [n \in Idx(t) |->
         LET e == PillarMean(t, env, n)
             sc == IF Len(soc) > 0 THEN PillarMean(t, soc, n) ELSE Num(50)
             g == PillarMean(t, gov, n)
         IN  Ext(t[n], [e_score |-> e, s_score |-> sc, g_score |-> g,
                        esg_score |-> Composite(e, sc, g)])]

-----------------------------------------------------------------------------
(* Specification SpecCalc: app.py, the loaded table run through            *)
(* compute_kpis, aggregate_to_farm_level and compute_esg_scores of         *)
(* utils/calculations.py                                                   *)

CalcSamples ==
  { [farmer_name |-> "Ann", month |-> Num(1), field_name |-> "North", crop_type |-> "Wheat",
     year |-> Num(2023), field_area_ha |-> Num(10), fertiliser_kgN |-> Num(100),
     diesel_litres |-> Num(50), fertiliser_kgP2O5 |-> Num(40), fertiliser_kgK2O |-> Num(30),
     labour_hours |-> Num(20), pesticide_applied_yes_no |-> "Yes",
     irrigation_applied_yes_no |-> "No", livestock_present_yes_no |-> "No",
     sfi_soil_standard_yes_no |-> "yes", sfi_nutrient_management_yes_no |-> "No",
     sfi_hedgerows_yes_no |-> "TRUE"],
    [farmer_name |-> "Bob", month |-> Num(2), field_name |-> "South", crop_type |-> "Barley",
     year |-> Num(2023), field_area_ha |-> Num(20), fertiliser_kgN |-> Num(300),
     diesel_litres |-> Num(20), fertiliser_kgP2O5 |-> NaN, fertiliser_kgK2O |-> Num(10),
     labour_hours |-> Num(100), pesticide_applied_yes_no |-> "No",
     irrigation_applied_yes_no |-> "yes", livestock_present_yes_no |-> "No",
     sfi_soil_standard_yes_no |-> "No", sfi_nutrient_management_yes_no |-> "yes",
     sfi_hedgerows_yes_no |-> "No"],
    [farmer_name |-> "Cy", month |-> Num(3), field_name |-> "East", crop_type |-> "Oats",
     year |-> Num(2024), field_area_ha |-> Num(0), fertiliser_kgN |-> Num(50),
     diesel_litres |-> NaN, fertiliser_kgP2O5 |-> Num(5), fertiliser_kgK2O |-> Num(5),
     labour_hours |-> Num(10), pesticide_applied_yes_no |-> NoText,
     irrigation_applied_yes_no |-> NoText, livestock_present_yes_no |-> NoText,
     sfi_soil_standard_yes_no |-> NoText, sfi_nutrient_management_yes_no |-> NoText,
     sfi_hedgerows_yes_no |-> NoText],
    [farmer_name |-> "Dee", month |-> Num(4), field_name |-> "West", crop_type |-> "Wheat",
     year |-> NaN, field_area_ha |-> Num(5), fertiliser_kgN |-> Num(20),
     diesel_litres |-> Num(10), fertiliser_kgP2O5 |-> Num(1), fertiliser_kgK2O |-> Num(1),
     labour_hours |-> NaN, pesticide_applied_yes_no |-> "True",
     irrigation_applied_yes_no |-> "No", livestock_present_yes_no |-> "Yes",
     sfi_soil_standard_yes_no |-> "Yes", sfi_nutrient_management_yes_no |-> "Yes",
     sfi_hedgerows_yes_no |-> "No"] }

CalcFarms ==
  { [farm_id |-> "F1", farm_name |-> "Alpha"],
    [farm_id |-> "F2", farm_name |-> "Beta"],
    [farm_id |-> "F3", farm_name |-> "Gamma"] }

RecommendedCols == {"fertiliser_kgP2O5", "fertiliser_kgK2O", "labour_hours"}

SfiCols ==
  {"sfi_soil_standard_yes_no", "sfi_nutrient_management_yes_no", "sfi_hedgerows_yes_no"}

OptionalColumnChoices == {{}, RecommendedCols, RecommendedCols \cup SfiCols}

(* a record whose fertiliser_kgN cell is not a number *)
MalformedSample ==
  [farmer_name |-> "Eve", month |-> Num(5), field_name |-> "Hill", crop_type |-> "Wheat",
   year |-> Num(2023), field_area_ha |-> Num(4), fertiliser_kgN |-> BadText,
   diesel_litres |-> Num(8), fertiliser_kgP2O5 |-> Num(2), fertiliser_kgK2O |-> Num(2),
   labour_hours |-> Num(6), pesticide_applied_yes_no |-> "No",
   irrigation_applied_yes_no |-> "No", livestock_present_yes_no |-> "No",
   sfi_soil_standard_yes_no |-> "No", sfi_nutrient_management_yes_no |-> "No",
   sfi_hedgerows_yes_no |-> "No"]

(* a record that carries the farm id F1 under another farm name *)
MisnamedSample ==
  [farmer_name |-> "Fay", month |-> Num(6), field_name |-> "Mill", crop_type |-> "Barley",
   year |-> Num(2023), field_area_ha |-> Num(8), fertiliser_kgN |-> Num(160),
   diesel_litres |-> Num(40), fertiliser_kgP2O5 |-> Num(16), fertiliser_kgK2O |-> Num(8),
   labour_hours |-> Num(24), pesticide_applied_yes_no |-> "Yes",
   irrigation_applied_yes_no |-> "No", livestock_present_yes_no |-> "Yes",
   sfi_soil_standard_yes_no |-> "Yes", sfi_nutrient_management_yes_no |-> "No",
   sfi_hedgerows_yes_no |-> "Yes"]

CalcRows(cols) ==
  {Restrict(Ext(s, f), cols) : s \in CalcSamples, f \in CalcFarms}
    \cup {Restrict(Ext(MalformedSample, [farm_id |-> "F1", farm_name |-> "Alpha"]), cols)}
    \cup {Restrict(Ext(MisnamedSample, [farm_id |-> "F1", farm_name |-> "Beta"]), cols)}

(* uploads that lack required columns *)
CalcMissingChoices == {{"year"}, {"diesel_litres", "month"}}

CalcUploadRows(cols) ==
  IF REQUIRED_INTERNAL_COLS \subseteq cols THEN CalcRows(cols)
  ELSE {Restrict(Ext(s, [farm_id |-> "F1", farm_name |-> "Alpha"]), cols) : s \in CalcSamples}

REQUIRED_DISPLAY_LABELS(c) ==
  CASE c = "farmer_name" -> "Farmer Name"
    [] c = "farm_name" -> "Farm Name"
    [] c = "year" -> "Year"
    [] c = "month" -> "Month"
    [] c = "field_name" -> "Field Name"
    [] c = "field_area_ha" -> "Field Area (ha)"
    [] c = "crop_type" -> "Crop Type"
    [] c = "fertiliser_kgN" -> "Nitrogen Fertiliser (kg)"
    [] c = "pesticide_applied_yes_no" -> "Pesticide Applied (Yes/No)"
    [] c = "diesel_litres" -> "Diesel Used (Litres)"
    [] c = "irrigation_applied_yes_no" -> "Irrigation Applied (Yes/No)"
    [] c = "livestock_present_yes_no" -> "Livestock Present (Yes/No)"

InitCalc ==
  /\ pc = "calc_uploaded"
  /\ columns \in {REQUIRED_INTERNAL_COLS \cup {"farm_id"} \cup o : o \in OptionalColumnChoices}
                   \cup {(REQUIRED_INTERNAL_COLS \cup {"farm_id"} \cup RecommendedCols) \ m :
                            m \in CalcMissingChoices}
  /\ raw_df \in SeqsUpTo(CalcUploadRows(columns), MaxRows)
  /\ df = <<>>
  /\ farm_df = <<>>
  /\ esg_df = <<>>
  /\ raised = ""
  /\ IdlePage
  /\ IdleMerge
  /\ IdleReport
  /\ IdlePct

(* the required-column check of app.py: one line per missing column with   *)
(* its display label, then st.stop()                                       *)
ValidateApp ==
  /\ pc = "calc_uploaded"
  /\ LET missing_required ==
           {REQUIRED_DISPLAY_LABELS(c) : c \in REQUIRED_INTERNAL_COLS \ columns}
     IN  IF missing_required # {}
         THEN reported' = missing_required /\ pc' = "calc_stopped"
         ELSE reported' = reported /\ pc' = "calc_validated"
  /\ UNCHANGED <<tableVars, pctVars, filtered_esg, insights, mergeVars, reportVars>>

ComputeKpis ==
  /\ pc = "calc_validated"
  /\ IF compute_kpis_raises(raw_df, columns) # ""
     THEN /\ raised' = compute_kpis_raises(raw_df, columns)
          /\ pc' = "calc_failed"
          /\ df' = df
          /\ raw_df' = CallerTable(raw_df, raw_df, TRUE)
     ELSE /\ df' = compute_kpis(raw_df)
          /\ raw_df' = CallerTable(raw_df, compute_kpis(raw_df), TRUE)
          /\ pc' = "calc_kpis"
          /\ raised' = raised
  /\ UNCHANGED <<columns, farm_df, esg_df, pctVars, pageVars, mergeVars, reportVars>>

AggregateToFarmLevel ==
  /\ pc = "calc_kpis"
  /\ IF aggregate_raises(KpiColumns(columns)) # ""
     THEN /\ raised' = aggregate_raises(KpiColumns(columns))
          /\ pc' = "calc_failed"
          /\ farm_df' = farm_df
     ELSE /\ farm_df' = aggregate_to_farm_level(df)
          /\ pc' = "calc_aggregated"
          /\ raised' = raised
  /\ df' = CallerTable(df, df, FALSE)
  /\ UNCHANGED <<columns, raw_df, esg_df, pctVars, pageVars, mergeVars, reportVars>>

ComputeEsgScores ==
  /\ pc = "calc_aggregated"
  /\ esg_df' = compute_esg_scores(farm_df, AggColumns)
  /\ farm_df' = CallerTable(farm_df, compute_esg_scores(farm_df, AggColumns), TRUE)
  /\ pc' = "calc_scored"
  /\ UNCHANGED <<columns, raw_df, df, raised, pctVars, pageVars, mergeVars, reportVars>>

(* the sidebar selection and the filter of app.py in the default view mode *)
(* "Current Year Snapshot": farms[0] raises IndexError on an empty scored  *)
(* table, and an empty filter result stops the script                      *)
SelectFarm ==
  /\ pc = "calc_scored"
  /\ LET farms == {esg_df[n].farm_id : n \in Idx(esg_df)}
         years == {esg_df[n].year : n \in Idx(esg_df)}
     IN  IF farms = {}
         THEN /\ raised' = "IndexError"
              /\ pc' = "calc_page_failed"
              /\ filtered_esg' = filtered_esg
         ELSE \E selected_farm \in farms, selected_year \in years :
                /\ filtered_esg' =
                     SelectSeq(esg_df, LAMBDA row : /\ row.farm_id = selected_farm
                                                    /\ row.year = selected_year)
                /\ pc' = IF filtered_esg' = <<>> THEN "calc_no_data" ELSE "calc_selected"
                /\ raised' = raised
  /\ UNCHANGED <<columns, raw_df, df, farm_df, esg_df, reported, insights, pctVars,
               mergeVars, reportVars>>

(* utils/ai_insights.py *)

AiParameters ==
  {"esg_score", "e_score", "s_score", "emissions_per_ha", "emissions_per_tonne",
   "yield_per_ha", "female_share", "accidents", "farm_id"}

NoKeyMessages ==
  <<"Set up your Google API key to get personalized advice.",
    "Check your .env file for GOOGLE_API_KEY configuration.",
    "Contact support for help with AI features.">>

FallbackMessages ==
  <<"AI service temporarily unavailable.",
    "Your overall score is {round(esg_score, 0)}/100.",
    "Try uploading your data again or contact support.">>

(* the call of generate_ai_insights with the given keyword arguments: a    *)
(* keyword that is not a parameter, or a parameter left out, raises        *)
(* TypeError before the body runs; llm is what the model call does         *)
generate_ai_insights(kwargs, api_key, llm) ==
  IF kwargs # AiParameters THEN [raises |-> "TypeError", value |-> <<>>]
  ELSE IF ~api_key THEN [raises |-> "", value |-> NoKeyMessages]
  ELSE IF llm = "error" THEN [raises |-> "", value |-> FallbackMessages]
  ELSE IF llm = "empty"
  THEN [raises |-> "", value |-> <<"Unable to generate insights. Please try again.">>]
  ELSE [raises |-> "", value |-> <<"{ai text}">>]

(* the keyword arguments of the call in app.py *)
AppCallKeywords ==
  {"esg_score", "e_score", "s_score", "emissions_per_ha", "emissions_per_tonne",
   "yield_per_ha", "female_share", "accidents", "farm_id", "farmer_name"}

LlmOutcomes == {"text", "empty", "error"}

(* the module-level call of generate_ai_insights in app.py, outside any    *)
(* try block                                                               *)
GenerateAiInsights ==
  /\ pc = "calc_selected"
  /\ \E api_key \in BOOLEAN, llm \in LlmOutcomes :
        LET r == generate_ai_insights(AppCallKeywords, api_key, llm)
        IN  IF r.raises # ""
            THEN /\ raised' = r.raises
                 /\ pc' = "calc_page_failed"
                 /\ insights' = insights
            ELSE /\ insights' = r.value
                 /\ pc' = "calc_insights"
                 /\ raised' = raised
  /\ UNCHANGED <<columns, raw_df, df, farm_df, esg_df, reported, filtered_esg, pctVars,
               mergeVars, reportVars>>

NextCalc ==
  \/ ValidateApp
  \/ ComputeKpis
  \/ AggregateToFarmLevel
  \/ ComputeEsgScores
  \/ SelectFarm
  \/ GenerateAiInsights

SpecCalc == InitCalc /\ [][NextCalc]_vars

-----------------------------------------------------------------------------
(* utils/calculations.py: merge_optional_data(base_df, optional_df)        *)

OptionalMeanCols == {"soil_organic_matter_pct", "soil_ph"}

OptionalSumCols ==
  {"hedgerow_length_m", "wildflower_area_ha", "buffer_strip_area_ha", "trees_planted_count",
   "water_volume_m3"}

OptionalRateCols ==
  {"cover_crop_planted_yes_no", "reduced_tillage_yes_no", "integrated_pest_management_yes_no",
   "labour_hs_training_done_yes_no", "worker_contracts_formalised_yes_no"}

(* the keys of the dict passed to agg *)
OptionalAggCols == OptionalMeanCols \cup OptionalSumCols \cup OptionalRateCols

MergeKey(r) == <<r.farm_id, r.year>>

(* groupby(['farm_id', 'year']) drops the rows with a missing key part *)
MergeKeyPresent(k) == k[1] # NoText /\ NotNa(k[2])

OptionalGroupOf(t, k) == {i \in Idx(t) : MergeKey(t[i]) = k}

OptionalKeys(t) == {k \in {MergeKey(t[i]) : i \in Idx(t)} : MergeKeyPresent(k)}

(* lambda x: x.str.lower().isin(['yes', 'true', '1']).mean() *)
OptionalRate(t, c, G) ==
  Norm(Cardinality({i \in G : YesNoBinary(t[i][c]) = Num(1)}), Cardinality(G))

(* one row of optional_agg: the aggregates of the optional rows of a key *)
OptionalAggRow(t, k) ==
  LET G == OptionalGroupOf(t, k)
  IN  [c \in OptionalAggCols |->
         IF c \in OptionalMeanCols THEN GroupMean(t, c, G)
         ELSE IF c \in OptionalSumCols THEN GroupSum(t, c, G)
         ELSE OptionalRate(t, c, G)]

(* the cells a left merge gives a base row without a match *)
NoOptionalValues == [c \in OptionalAggCols |-> NaN]

IsNoneOrEmpty(opt) == opt = <<>> \/ opt[1] = <<>>

(* the exception merge_optional_data ends with, "" when it returns: agg    *)
(* with a dict raises KeyError for a column the table does not have, and   *)
(* the .str accessor raises AttributeError on a column without text        *)
merge_optional_data_raises(base, opt) ==
  IF IsNoneOrEmpty(opt) THEN ""
  ELSE IF ~((OptionalAggCols \cup {"farm_id", "year"}) \subseteq DOMAIN opt[1][1])
       THEN "KeyError"
  ELSE IF \E c \in OptionalRateCols : StrAccessorFails(opt[1], c) THEN "AttributeError"
  ELSE ""

(* a merge that keeps only the base rows with optional data (how='inner') *)
merge_optional_data_inner(base, opt) ==
  IF IsNoneOrEmpty(opt) THEN base
  ELSE LET t == opt[1]
           kept == {i \in Idx(base) : MergeKey(base[i]) \in OptionalKeys(t)}
           pos(n) == CHOOSE i \in kept : Cardinality({j \in kept : j < i}) = n - 1
       IN  [n \in 1 .. Cardinality(kept) |->
              Ext(base[pos(n)], OptionalAggRow(t, MergeKey(base[pos(n)])))]

(* pd.merge(base_df, optional_agg, on=['farm_id', 'year'], how='left'):    *)
(* the base rows in their order, each with the aggregates of its key       *)
merge_optional_data(base, opt) ==
  IF IsNoneOrEmpty(opt) THEN base
  ELSE LET t == opt[1]
       IN  [i \in Idx(base) |->
              IF MergeKey(base[i]) \in OptionalKeys(t)
              THEN Ext(base[i], OptionalAggRow(t, MergeKey(base[i])))
              ELSE Ext(base[i], NoOptionalValues)]

(* an optional row: every numeric column holds num, every yes/no column flag *)
OptionalRow(farm, year, num, flag) ==
  [c \in OptionalAggCols \cup {"farm_id", "year"} |->
     IF c = "farm_id" THEN farm
     ELSE IF c = "year" THEN year
     ELSE IF c \in OptionalRateCols THEN flag
     ELSE num]

OptionalSamples ==
  { OptionalRow("F1", Num(2023), Num(100), "Yes"),
    OptionalRow("F1", Num(2023), NaN, NoText),
    OptionalRow("F2", Num(2023), Num(300), "no"),
    OptionalRow("F1", NaN, Num(300), "TRUE") }

(* optional tables that lack a column of the agg dict *)
OptionalDropChoices == {{}, {"soil_ph"}}

OptionalRows(drop) == {Restrict(r, DOMAIN r \ drop) : r \in OptionalSamples}

(* farm-year aggregates as base rows: two farm-years with optional data in *)
(* OptionalSamples and one without                                         *)
BaseSamples ==
  { [farm_id |-> "F1", farm_name |-> "Alpha", year |-> Num(2023),
     total_farm_area_ha |-> Num(20)],
    [farm_id |-> "F2", farm_name |-> "Beta", year |-> Num(2023),
     total_farm_area_ha |-> Num(8)],
    [farm_id |-> "F1", farm_name |-> "Alpha", year |-> Num(2024),
     total_farm_area_ha |-> Num(5)] }

(* Specification SpecMerge: merge_optional_data applied to a farm-year     *)
(* table and an optional table (None, empty or with rows)                  *)
InitMerge ==
  /\ pc = "merge_call"
  /\ farm_df \in SeqsUpTo(BaseSamples, MaxRows)
  /\ optional_df \in {<<>>} \cup
        {<<t>> : t \in UNION {SeqsUpTo(OptionalRows(d), MaxRows) : d \in OptionalDropChoices}}
  /\ merged = <<>>
  /\ columns = {}
  /\ raw_df = <<>>
  /\ df = <<>>
  /\ esg_df = <<>>
  /\ raised = ""
  /\ IdlePage
  /\ IdleReport
  /\ IdlePct

MergeOptionalData ==
  /\ pc = "merge_call"
  /\ IF merge_optional_data_raises(farm_df, optional_df) # ""
     THEN /\ raised' = merge_optional_data_raises(farm_df, optional_df)
          /\ pc' = "merge_failed"
          /\ merged' = merged
     ELSE /\ merged' = merge_optional_data(farm_df, optional_df)
          /\ pc' = "merge_done"
          /\ raised' = raised
  /\ farm_df' = CallerTable(farm_df, farm_df, FALSE)
  /\ optional_df' = CallerTable(optional_df, optional_df, FALSE)
  /\ UNCHANGED <<columns, raw_df, df, esg_df, pctVars, pageVars, reportVars>>

NextMerge == MergeOptionalData

SpecMerge == InitMerge /\ [][NextMerge]_vars

-----------------------------------------------------------------------------
(* farm_esg_analysis.py: threshold scorer applied row by row *)

score_from_thresholds(value, thresholds) ==
  IF Lt(value, Num(thresholds[1])) THEN Num(100)
  ELSE IF Lt(value, Num(thresholds[2])) THEN Num(75)
  ELSE IF Lt(value, Num(thresholds[3])) THEN Num(50)
  ELSE IF Lt(value, Num(thresholds[4])) THEN Num(25)
  ELSE Num(0)

social_score_female(p) ==
  IF Ge(p, Num(40)) THEN Num(100)
  ELSE IF Ge(p, Num(30)) THEN Num(75)
  ELSE IF Ge(p, Num(20)) THEN Num(50)
  ELSE IF Ge(p, Num(10)) THEN Num(25)
  ELSE Num(0)

social_score_acc(r) ==
  IF Eq(r, Num(0)) THEN Num(100)
  ELSE IF Lt(r, Num(5)) THEN Num(75)
  ELSE IF Lt(r, Num(10)) THEN Num(50)
  ELSE IF Lt(r, Num(20)) THEN Num(25)
  ELSE Num(0)

(* Python truth value of a float: only zero is false, NaN is true *)
Truthy(x) == x # Num(0)

FemalePct(row) ==
  IF NotNa(row.female_share) THEN Mul(row.female_share, Num(100)) ELSE Num(0)

EnvSubscores(row) ==
  <<score_from_thresholds(row.emissions_per_tonne, <<300, 450, 600, 800>>),
    score_from_thresholds(row.water_per_tonne, <<2, 4, 7, 10>>),
    score_from_thresholds(IF Truthy(row.area_ha)
                          THEN Div(row.fertilizer_n_kg, row.area_ha) ELSE NaN,
                          <<90, 120, 160, 200>>)>>

SocSubscores(row) ==
  <<social_score_female(FemalePct(row)),
    social_score_acc(row.accidents_per_100_workers)>>

GovScoreFromCert(row) ==
  LET cert == Lower(AsStr(IF "certification_scheme" \in DOMAIN row
                          THEN row.certification_scheme ELSE "None"))
  IN  IF Contains(cert, "organic") \/ Contains(cert, "leaf") THEN Num(100)
      ELSE IF Contains(cert, "red") THEN Num(80)
      ELSE IF cert # "none" THEN Num(60)
      ELSE Num(40)

compute_esg_scores_row(row) ==
  LET env_score == MeanSkipNa(EnvSubscores(row))
      soc_score == MeanSkipNa(SocSubscores(row))
      gov_score == GovScoreFromCert(row)
  IN  [env_score |-> env_score,
       soc_score |-> soc_score,
       gov_score |-> gov_score,
       esg_score |-> Composite(env_score, soc_score, gov_score)]

KpiRowFarm(r) ==
  LET emissions_fertilizer == Mul(r.fertilizer_n_kg, EF_N)
      emissions_diesel == Mul(r.diesel_litres, EF_DIESEL)
      emissions_electric == Mul(r.electricity_kwh, EF_ELEC)
      total == Add(Add(emissions_fertilizer, emissions_diesel), emissions_electric)
  IN  Ext(r, [yield_per_ha |-> Div(r.yield_tonnes, r.area_ha),
              water_per_tonne |-> Div(r.water_m3, r.yield_tonnes),
              emissions_fertilizer |-> emissions_fertilizer,
              emissions_diesel |-> emissions_diesel,
              emissions_electric |-> emissions_electric,
              total_emissions |-> total,
              emissions_per_ha |-> Div(total, r.area_ha),
              emissions_per_tonne |-> Div(total, r.yield_tonnes),
              female_share |-> Div(r.workers_female, r.workers_total),
              accidents_per_100_workers |->
                 Mul(Div(r.accidents_count, r.workers_total), Num(100))])

compute_kpis_farm(t) ==
  [i \in Idx(t) |->
     LET row == KpiRowFarm(t[i])
     IN  Ext(row, compute_esg_scores_row(row))]

-----------------------------------------------------------------------------
(* Specification SpecFarm: farm_esg_analysis.py, an uploaded table run     *)
(* through compute_kpis, which scores every row                            *)

FarmColumnChoices == {{}, {"certification_scheme"}}

InitFarm ==
  /\ pc = "farm_uploaded"
  /\ columns \in {DashRequired \cup c : c \in FarmColumnChoices}
                   \cup {DashRequired \ m : m \in DashMissingChoices}
  /\ raw_df \in SeqsUpTo(DashUploadRows(columns), MaxRows)
  /\ df = <<>>
  /\ farm_df = <<>>
  /\ esg_df = <<>>
  /\ raised = ""
  /\ IdlePage
  /\ IdleMerge
  /\ IdleReport
  /\ IdlePct

(* the required-column check of the script: a fixed st.error message that  *)
(* names no column, then st.stop()                                         *)
ValidateFarm ==
  /\ pc = "farm_uploaded"
  /\ IF \E c \in DashRequired : c \notin columns
     THEN reported' = {} /\ pc' = "farm_stopped"
     ELSE reported' = reported /\ pc' = "farm_validated"
  /\ UNCHANGED <<tableVars, pctVars, filtered_esg, insights, mergeVars, reportVars>>

ComputeKpisFarm ==
  /\ pc = "farm_validated"
  /\ df' = compute_kpis_farm(raw_df)
  /\ pc' = "farm_scored"
  /\ UNCHANGED <<columns, raw_df, farm_df, esg_df, raised, pctVars, pageVars,
               mergeVars, reportVars>>

NextFarm == ValidateFarm \/ ComputeKpisFarm

SpecFarm == InitFarm /\ [][NextFarm]_vars

-----------------------------------------------------------------------------
(* utils/report_engine.py: _build_sfi_land_parcels and _calculate_emissions *)
(* on the activity rows of the selected farm and year                      *)

DIESEL_FACTOR_KG_PER_LITRE == Norm(268, 100)
N_FERT_FACTOR_KG_PER_KG == Num(6)
P_FERT_FACTOR_KG_PER_KG == Num(1)
K_FERT_FACTOR_KG_PER_KG == Norm(5, 10)

(* the columns _calculate_emissions reads, by their internal names, and    *)
(* the display names app.py renames them to                                *)
EmissionCols ==
  <<"field_area_ha", "diesel_litres", "fertiliser_kgN", "fertiliser_kgP2O5",
    "fertiliser_kgK2O">>

DisplayName(c) ==
  CASE c = "field_area_ha" -> "Field Area (ha)"
    [] c = "diesel_litres" -> "Diesel Used (Litres)"
    [] c = "fertiliser_kgN" -> "Nitrogen Fertiliser (kg)"
    [] c = "fertiliser_kgP2O5" -> "Phosphate Fertiliser (kg)"
    [] c = "fertiliser_kgK2O" -> "Potash Fertiliser (kg)"

(* app.py: rename to the display names, a column the table lacks is 0 *)
activity_for_emissions(t) ==
  [i \in Idx(t) |->
     [d \in {DisplayName(EmissionCols[j]) : j \in Idx(EmissionCols)} |->
        LET c == CHOOSE x \in {EmissionCols[j] : j \in Idx(EmissionCols)} : DisplayName(x) = d
        IN  IF c \in DOMAIN t[i] THEN t[i][c] ELSE Num(0)]]

(* Series.fillna(0).sum() *)
FillnaSum(t, c) ==
  SumSet([i \in Idx(t) |-> IF IsNaN(t[i][c]) THEN Num(0) ELSE t[i][c]], Idx(t))

(* the sentence built from the list of drivers *)
TopDriversSentence(scope1_t, scope3_t) ==
  IF Lt(Num(0), scope1_t) /\ Lt(Num(0), scope3_t)
  THEN "Emissions are mainly driven by diesel use and fertiliser use."
  ELSE IF Lt(Num(0), scope1_t) THEN "Emissions are mainly driven by diesel use."
  ELSE IF Lt(Num(0), scope3_t) THEN "Emissions are mainly driven by fertiliser use."
  ELSE "No major emissions sources identified in the current dataset."

(* the intensities divided out without the test on the total area *)
calculate_emissions_unguarded(t) ==
  LET total_area_ha == FillnaSum(t, "Field Area (ha)")
      scope1_kg == Mul(FillnaSum(t, "Diesel Used (Litres)"), DIESEL_FACTOR_KG_PER_LITRE)
      scope3_kg ==
        Add(Add(Mul(FillnaSum(t, "Nitrogen Fertiliser (kg)"), N_FERT_FACTOR_KG_PER_KG),
                Mul(FillnaSum(t, "Phosphate Fertiliser (kg)"), P_FERT_FACTOR_KG_PER_KG)),
            Mul(FillnaSum(t, "Potash Fertiliser (kg)"), K_FERT_FACTOR_KG_PER_KG))
      scope1_t == Div(scope1_kg, Num(1000))
      scope3_t == Div(scope3_kg, Num(1000))
  IN  [scope1_total_tco2e |-> scope1_t,
       scope3_total_tco2e |-> scope3_t,
       total_emissions_tco2e |-> Add(scope1_t, scope3_t),
       total_area_ha |-> total_area_ha,
       scope1_intensity_kg_per_ha |-> Div(scope1_kg, total_area_ha),
       scope3_intensity_kg_per_ha |-> Div(scope3_kg, total_area_ha),
       intensity_kg_per_ha |-> Div(Add(scope1_kg, scope3_kg), total_area_ha),
       top_drivers_sentence |-> TopDriversSentence(scope1_t, scope3_t)]

(* _calculate_emissions(df) -> EmissionsResults *)
calculate_emissions(t) ==
  IF t = <<>>
  THEN [scope1_total_tco2e |-> Num(0),
        scope3_total_tco2e |-> Num(0),
        total_emissions_tco2e |-> Num(0),
        total_area_ha |-> Num(0),
        scope1_intensity_kg_per_ha |-> Num(0),
        scope3_intensity_kg_per_ha |-> Num(0),
        intensity_kg_per_ha |-> Num(0),
        top_drivers_sentence |-> "No data available for emissions calculations."]
  ELSE
  LET total_area_ha == FillnaSum(t, "Field Area (ha)")
      total_diesel_litres == FillnaSum(t, "Diesel Used (Litres)")
      scope1_kg == Mul(total_diesel_litres, DIESEL_FACTOR_KG_PER_LITRE)
      total_n == FillnaSum(t, "Nitrogen Fertiliser (kg)")
      total_p == FillnaSum(t, "Phosphate Fertiliser (kg)")
      total_k == FillnaSum(t, "Potash Fertiliser (kg)")
      fert_kg == Add(Add(Mul(total_n, N_FERT_FACTOR_KG_PER_KG),
                         Mul(total_p, P_FERT_FACTOR_KG_PER_KG)),
                     Mul(total_k, K_FERT_FACTOR_KG_PER_KG))
      scope3_kg == fert_kg
      scope1_t == Div(scope1_kg, Num(1000))
      scope3_t == Div(scope3_kg, Num(1000))
      total_t == Add(scope1_t, scope3_t)
      positive == Lt(Num(0), total_area_ha)
  IN  [scope1_total_tco2e |-> scope1_t,
       scope3_total_tco2e |-> scope3_t,
       total_emissions_tco2e |-> total_t,
       total_area_ha |-> total_area_ha,
       scope1_intensity_kg_per_ha |->
         IF positive THEN Div(scope1_kg, total_area_ha) ELSE Num(0),
       scope3_intensity_kg_per_ha |->
         IF positive THEN Div(scope3_kg, total_area_ha) ELSE Num(0),
       intensity_kg_per_ha |->
         IF positive THEN Div(Add(scope1_kg, scope3_kg), total_area_ha) ELSE Num(0),
       top_drivers_sentence |-> TopDriversSentence(scope1_t, scope3_t)]

(* str.strip() on the text values that occur in the model *)
Strip(x) == IF x = " Yes " THEN "Yes" ELSE x

(* is_yes(value): str(value).strip().lower() in ["yes", "y", "true", "1"] *)
is_yes(value) == Lower(Strip(AsStr(value))) \in {"yes", "y", "true", "1"}

(* row.get(key, default) *)
RowGet(r, key, default) == IF key \in DOMAIN r THEN r[key] ELSE default

(* float(row.get("field_area_ha", 0.0) or 0.0): 0 and None give 0.0, a NaN *)
(* cell is truthy and stays NaN                                            *)
FieldArea(r) == RowGet(r, "field_area_ha", Num(0))

(* float(trees_val) unless the cell is None or "" *)
TreesCount(r) == RowGet(r, "trees_planted_count", Num(0))

Parcel(r) ==
  [field_id |-> RowGet(r, "field_id", ""),
   field_name |-> RowGet(r, "field_name", ""),
   field_area_ha |-> FieldArea(r),
   crop_type |-> RowGet(r, "crop_type", ""),
   soil_type |-> RowGet(r, "soil_type", ""),
   cover_crop |-> is_yes(RowGet(r, "cover_crop_planted_yes_no", "no")),
   reduced_tillage |-> is_yes(RowGet(r, "reduced_tillage_yes_no", "no")),
   soil_test_conducted |-> is_yes(RowGet(r, "soil_test_conducted_yes_no", "no")),
   trees_planted_count |-> TreesCount(r)]

(* pct(part, whole) *)
pct(part, whole) ==
  IF Lt(Num(0), whole) THEN Mul(Div(part, whole), Num(100)) ELSE Num(0)

(* _build_sfi_land_parcels(farm_year_df) *)
build_sfi_land_parcels(t) ==
  IF t = <<>>
  THEN [land_parcels |-> <<>>,
        summary |-> [total_area_ha |-> Num(0),
                     num_fields |-> 0,
                     cover_crop_area_pct |-> Num(0),
                     reduced_tillage_area_pct |-> Num(0),
                     soil_test_area_pct |-> Num(0),
                     fields_with_trees_pct |-> Num(0)]]
  ELSE
  (* each area total starts at 0.0 and grows by += field_area, row by row *)
  LET parcels == [i \in Idx(t) |-> Parcel(t[i])]
      areas == [i \in Idx(t) |-> parcels[i].field_area_ha]
      total_area == SumSet(areas, Idx(t))
      cover_crop_area == SumSet(areas, {i \in Idx(t) : parcels[i].cover_crop})
      reduced_tillage_area == SumSet(areas, {i \in Idx(t) : parcels[i].reduced_tillage})
      soil_test_area == SumSet(areas, {i \in Idx(t) : parcels[i].soil_test_conducted})
      trees_area ==
        SumSet(areas, {i \in Idx(t) : Lt(Num(0), parcels[i].trees_planted_count)})
  IN  [land_parcels |-> parcels,
       summary |-> [total_area_ha |-> total_area,
                    num_fields |-> Len(parcels),
                    cover_crop_area_pct |-> pct(cover_crop_area, total_area),
                    reduced_tillage_area_pct |-> pct(reduced_tillage_area, total_area),
                    soil_test_area_pct |-> pct(soil_test_area, total_area),
                    fields_with_trees_pct |-> pct(trees_area, total_area)]]

(* activity rows of one farm and year; the area is a number, 0 or missing  *)
ReportSamples ==
  { [field_name |-> "North", crop_type |-> "Wheat", field_area_ha |-> Num(20),
     diesel_litres |-> Num(100), fertiliser_kgN |-> Num(50), fertiliser_kgP2O5 |-> Num(40),
     fertiliser_kgK2O |-> Num(30), cover_crop_planted_yes_no |-> "Yes",
     reduced_tillage_yes_no |-> "no", soil_test_conducted_yes_no |-> "Y",
     trees_planted_count |-> Num(3)],
    [field_name |-> "South", crop_type |-> "Barley", field_area_ha |-> Num(5),
     diesel_litres |-> NaN, fertiliser_kgN |-> Num(300), fertiliser_kgP2O5 |-> NaN,
     fertiliser_kgK2O |-> Num(10), cover_crop_planted_yes_no |-> "no",
     reduced_tillage_yes_no |-> " Yes ", soil_test_conducted_yes_no |-> NoText,
     trees_planted_count |-> NaN],
    [field_name |-> "East", crop_type |-> "Oats", field_area_ha |-> NaN,
     diesel_litres |-> Num(20), fertiliser_kgN |-> NaN, fertiliser_kgP2O5 |-> Num(5),
     fertiliser_kgK2O |-> Num(5), cover_crop_planted_yes_no |-> "Yes",
     reduced_tillage_yes_no |-> NoText, soil_test_conducted_yes_no |-> "no",
     trees_planted_count |-> Num(0)],
    [field_name |-> "West", crop_type |-> "Wheat", field_area_ha |-> Num(0),
     diesel_litres |-> Num(0), fertiliser_kgN |-> Num(0), fertiliser_kgP2O5 |-> Num(0),
     fertiliser_kgK2O |-> Num(0), cover_crop_planted_yes_no |-> "TRUE",
     reduced_tillage_yes_no |-> "Yes", soil_test_conducted_yes_no |-> "yes",
     trees_planted_count |-> Num(1)] }

(* the optional columns an upload may lack *)
ReportDropChoices ==
  {{}, {"fertiliser_kgP2O5", "fertiliser_kgK2O", "cover_crop_planted_yes_no",
        "reduced_tillage_yes_no", "soil_test_conducted_yes_no", "trees_planted_count"}}

ReportRows(drop) == {Restrict(r, DOMAIN r \ drop) : r \in ReportSamples}

(* Specification SpecReport: the report engine on the activity rows of the *)
(* selected farm and year: build_master_report_data builds the SFI plan    *)
(* block, then app.py builds the emissions report from the same rows       *)
InitReport ==
  /\ pc = "report_call"
  /\ df \in UNION {SeqsUpTo(ReportRows(d), MaxRows) : d \in ReportDropChoices}
  /\ columns = {}
  /\ raw_df = <<>>
  /\ farm_df = <<>>
  /\ esg_df = <<>>
  /\ raised = ""
  /\ IdlePage
  /\ IdleMerge
  /\ IdleReport
  /\ IdlePct

BuildSfiLandParcels ==
  /\ pc = "report_call"
  /\ sfi_plan' = build_sfi_land_parcels(df)
  /\ pc' = "report_parcels"
  /\ UNCHANGED <<tableVars, pctVars, pageVars, mergeVars, results>>

CalculateEmissions ==
  /\ pc = "report_parcels"
  /\ results' = calculate_emissions(activity_for_emissions(df))
  /\ pc' = "report_done"
  /\ UNCHANGED <<tableVars, pctVars, pageVars, mergeVars, sfi_plan>>

NextReport == BuildSfiLandParcels \/ CalculateEmissions

SpecReport == InitReport /\ [][NextReport]_vars

-----------------------------------------------------------------------------
(* Specification SpecEngine: the three scoring pipelines side by side *)

InitEngine == InitDash \/ InitCalc \/ InitFarm

NextEngine == NextDash \/ NextCalc \/ NextFarm

SpecEngine == InitEngine /\ [][NextEngine]_vars

-----------------------------------------------------------------------------
(* Specification SpecScoring: the two pipelines that score by percentile   *)
(* rank, agri_esg_dashboard.py and app.py with utils/calculations.py       *)

InitScoring == InitDash \/ InitCalc

NextScoring == NextDash \/ NextCalc

SpecScoring == InitScoring /\ [][NextScoring]_vars

-----------------------------------------------------------------------------
(* Specification SpecFrames: every function that is handed a table by its  *)
(* caller, in agri_esg_dashboard.py and utils/calculations.py              *)

InitFrames == InitDash \/ InitCalc \/ InitMerge

NextFrames == NextDash \/ NextCalc \/ NextMerge

SpecFrames == InitFrames /\ [][NextFrames]_vars

-----------------------------------------------------------------------------
(* Properties of percentile_score (SpecPct) *)

IsMinOf(s, i) == i \in DropNa(s) /\ \A j \in DropNa(s) : Le(s[i], s[j])
IsMaxOf(s, i) == i \in DropNa(s) /\ \A j \in DropNa(s) : Le(s[j], s[i])
TiesOf(s, i) == Cardinality({j \in DropNa(s) : s[j] = s[i]})

PctDoneVarying == pc = "pct_done" /\ NUnique(series) >= 2

C2_NoVariationIsNeutral ==
  (pc = "pct_done" /\ NUnique(series) <= 1) =>
     /\ Len(score) = Len(series)
     /\ \A i \in Idx(series) : score[i] = Num(50)

C2_Witness ==
  /\ pc = "pct_done"
  /\ Len(series) >= 2
  /\ NUnique(series) = 1
  /\ \E i \in Idx(series) : IsNaN(series[i])
  /\ \A i \in Idx(series) : score[i] = Num(50)

-----------------------------------------------------------------------------
(* Properties of the pillar scores (SpecDash, SpecCalc, SpecFarm, SpecEngine) *)

DashEnvMetrics ==
  <<[col |-> "emissions_per_ha", hib |-> FALSE],
    [col |-> "emissions_per_tonne", hib |-> FALSE],
    [col |-> "n_per_ha", hib |-> FALSE],
    [col |-> "water_per_tonne", hib |-> FALSE]>>

DashSocMetrics ==
  <<[col |-> "female_share", hib |-> TRUE],
    [col |-> "accidents_per_100_workers", hib |-> FALSE]>>

MetricScore(t, m, n) == percentile_score(Col(t, m.col), m.hib)[n]

Varies(t, m) == NUnique(Col(t, m.col)) >= 2

(* the pillar mean in which a record's missing metric never counts *)
MeanOfOwnMetrics(t, metrics, n) ==
  MeanSkipNa([j \in Idx(metrics) |->
                IF IsNaN(t[n][metrics[j].col]) THEN NaN
                ELSE MetricScore(t, metrics[j], n)])

(* the pillar mean in which a record's missing metric counts as 50 when    *)
(* the column does not vary and is left out when it does                   *)
MeanOfScoredMetrics(t, metrics, n) ==
  MeanSkipNa([j \in Idx(metrics) |->
                IF IsNaN(t[n][metrics[j].col])
                THEN (IF Varies(t, metrics[j]) THEN NaN ELSE Num(50))
                ELSE MetricScore(t, metrics[j], n)])

(* C3 as stated: a record whose own value for a metric is missing gets no  *)
(* score for it, whether or not the column varies, and its pillar score is *)
(* the mean of its other available metric scores only.                     *)
C3_AsStated ==
  pc = "dash_scored" =>
     \A n \in Idx(esg_df) :
        /\ \A j \in Idx(DashEnvMetrics) :
              IsNaN(esg_df[n][DashEnvMetrics[j].col]) =>
                 IsNaN(MetricScore(esg_df, DashEnvMetrics[j], n))
        /\ \A j \in Idx(DashSocMetrics) :
              IsNaN(esg_df[n][DashSocMetrics[j].col]) =>
                 IsNaN(MetricScore(esg_df, DashSocMetrics[j], n))
        /\ esg_df[n].E_score = MeanOfOwnMetrics(esg_df, DashEnvMetrics, n)
        /\ esg_df[n].S_score = MeanOfOwnMetrics(esg_df, DashSocMetrics, n)

(* C3 amended: when the column's non-missing values vary, a record whose   *)
(* own value is missing gets no score for the metric and its pillar score  *)
(* is the mean of its other metric scores; when the column's non-missing   *)
(* values are all equal or all missing, that record gets 50 like every     *)
(* other record and the 50 enters its pillar mean.                         *)
C3_MissingMetric ==
  pc = "dash_scored" =>
     \A n \in Idx(esg_df) :
        /\ \A j \in Idx(DashEnvMetrics) :
              IsNaN(esg_df[n][DashEnvMetrics[j].col]) =>
                 MetricScore(esg_df, DashEnvMetrics[j], n) =
                   (IF Varies(esg_df, DashEnvMetrics[j]) THEN NaN ELSE Num(50))
        /\ \A j \in Idx(DashSocMetrics) :
              IsNaN(esg_df[n][DashSocMetrics[j].col]) =>
                 MetricScore(esg_df, DashSocMetrics[j], n) =
                   (IF Varies(esg_df, DashSocMetrics[j]) THEN NaN ELSE Num(50))
        /\ esg_df[n].E_score = MeanOfScoredMetrics(esg_df, DashEnvMetrics, n)
        /\ esg_df[n].S_score = MeanOfScoredMetrics(esg_df, DashSocMetrics, n)

C3_Witness ==
  /\ pc = "dash_scored"
  /\ \E n \in Idx(esg_df) :
        /\ IsNaN(esg_df[n].emissions_per_ha)
        /\ Varies(esg_df, DashEnvMetrics[1])
        /\ NotNa(esg_df[n].n_per_ha)
        /\ Varies(esg_df, DashEnvMetrics[3])
        /\ NotNa(esg_df[n].E_score)
        /\ esg_df[n].E_score # Num(50)

(* C4: every record of a non-empty batch has defined E, S, G and ESG       *)
(* scores; a record with no available metric in a pillar gets 50 for it.   *)
C4_AsStated ==
  pc = "dash_scored" =>
     \A n \in Idx(esg_df) :
        /\ IsFinite(esg_df[n].E_score)
        /\ IsFinite(esg_df[n].S_score)
        /\ IsFinite(esg_df[n].G_score)
        /\ IsFinite(esg_df[n].ESG_score)
        /\ (\A j \in Idx(DashSocMetrics) : IsNaN(esg_df[n][DashSocMetrics[j].col]))
              => esg_df[n].S_score = Num(50)

WeightedSum(e, s, g) ==
  IF IsNaN(e) \/ IsNaN(s) \/ IsNaN(g) THEN NaN
  ELSE Norm(5 * e[1] * s[2] * g[2] + 3 * s[1] * e[2] * g[2] + 2 * g[1] * e[2] * s[2],
            10 * e[2] * s[2] * g[2])

(* C5: for every scored record the composite equals                        *)
(* 0.5 * E_score + 0.3 * S_score + 0.2 * G_score of that same record.      *)
C5_CompositeIsWeightedSum ==
  /\ pc = "dash_scored" =>
        \A n \in Idx(esg_df) :
           esg_df[n].ESG_score =
             WeightedSum(esg_df[n].E_score, esg_df[n].S_score, esg_df[n].G_score)
  /\ pc = "calc_scored" =>
        \A n \in Idx(esg_df) :
           esg_df[n].esg_score =
             WeightedSum(esg_df[n].e_score, esg_df[n].s_score, esg_df[n].g_score)
  /\ pc = "farm_scored" =>
        \A i \in Idx(df) :
           df[i].esg_score =
             WeightedSum(df[i].env_score, df[i].soc_score, df[i].gov_score)

C5_Witness ==
  /\ pc = "calc_scored"
  /\ \E n \in Idx(esg_df) :
        /\ esg_df[n].e_score = Norm(50, 3)
        /\ esg_df[n].s_score = Num(100)
        /\ esg_df[n].g_score = Norm(200, 3)
        /\ esg_df[n].esg_score = Norm(155, 3)

(* C6: the Aggregator and the Scoring Engine never return a result for an  *)
(* empty batch; they fail with an InputError.                              *)
C6_AsStated ==
  /\ (pc \in {"calc_aggregated", "calc_scored"} /\ Len(df) = 0) => raised = "InputError"
  /\ (pc = "calc_scored" /\ Len(farm_df) = 0) => raised = "InputError"

(* C7: a non-empty batch that has every required column is scored whatever *)
(* optional columns are absent; no stage fails on a missing column.        *)
C7_AsStated ==
  (Len(raw_df) > 0 /\ REQUIRED_INTERNAL_COLS \subseteq columns) =>
     raised # "KeyError"

(* C8: total_emissions is the sum of the emission components that are      *)
(* present, a missing component counting as zero.                          *)
C8_AsStated ==
  pc \in {"dash_kpis", "dash_scored"} =>
     \A i \in Idx(df) :
        df[i].total_emissions =
          SumSkipNa(<<df[i].emissions_fertilizer, df[i].emissions_diesel,
                      df[i].emissions_electric>>)

(* C9: a record whose area is exactly 0 gets "no value" for every          *)
(* area-denominated ratio, in each variant of compute_kpis.                *)
C9_AsStated ==
  /\ pc \in {"dash_kpis", "dash_scored"} =>
        \A i \in Idx(df) :
           raw_df[i].area_ha = Num(0) =>
              /\ IsNaN(df[i].yield_per_ha)
              /\ IsNaN(df[i].n_per_ha)
              /\ IsNaN(df[i].emissions_per_ha)
  /\ pc \in {"calc_kpis", "calc_aggregated", "calc_scored"} =>
        \A i \in Idx(df) :
           raw_df[i].field_area_ha = Num(0) =>
              /\ IsNaN(df[i].n_per_ha)
              /\ IsNaN(df[i].p_per_ha)
              /\ IsNaN(df[i].k_per_ha)
              /\ IsNaN(df[i].emissions_per_ha)
              /\ IsNaN(df[i].labour_hours_per_ha)
  /\ pc = "farm_scored" =>
        \A i \in Idx(df) :
           raw_df[i].area_ha = Num(0) =>
              /\ IsNaN(df[i].yield_per_ha)
              /\ IsNaN(df[i].emissions_per_ha)

(* C10: a record with zero accidents and total_workers = 0 has accident    *)
(* rate "no value", that metric is left out of the Social mean (not scored *)
(* 0 or 100), and the Social score is the mean of the remaining metric.    *)
C10_AsStated ==
  pc = "farm_scored" =>
     \A i \in Idx(df) :
        (raw_df[i].accidents_count = Num(0) /\ raw_df[i].workers_total = Num(0)) =>
           /\ IsNaN(df[i].accidents_per_100_workers)
           /\ IsNaN(SocSubscores(df[i])[2])
           /\ df[i].soc_score = SocSubscores(df[i])[1]

-----------------------------------------------------------------------------
(* Properties of the threshold scorer (SpecFarm) *)

(* the metric values the threshold scorer reads for a row, in the order of *)
(* EnvSubscores and SocSubscores                                           *)
FarmEnvValues(row) ==
  <<row.emissions_per_tonne,
    row.water_per_tonne,
    IF Truthy(row.area_ha) THEN Div(row.fertilizer_n_kg, row.area_ha) ELSE NaN>>

FarmSocValues(row) == <<row.female_share, row.accidents_per_100_workers>>

(* the pillar mean in which the sub-score of a missing metric is left out *)
MeanOfPresentSubscores(values, subscores) ==
  MeanSkipNa([j \in Idx(values) |-> IF IsNaN(values[j]) THEN NaN ELSE subscores[j]])

(* C11: in the threshold scorer a record whose metric is missing has that  *)
(* sub-score left out of the pillar mean instead of receiving sub-score 0. *)
C11_AsStated ==
  pc = "farm_scored" =>
     \A i \in Idx(df) :
        /\ df[i].env_score =
             MeanOfPresentSubscores(FarmEnvValues(df[i]), EnvSubscores(df[i]))
        /\ df[i].soc_score =
             MeanOfPresentSubscores(FarmSocValues(df[i]), SocSubscores(df[i]))

-----------------------------------------------------------------------------
(* Properties of compute_kpis on malformed cells (SpecCalc) *)

NumericRequiredCols == {"field_area_ha", "fertiliser_kgN", "diesel_litres"}

Malformed(r) == \E c \in NumericRequiredCols \cap DOMAIN r : r[c] = BadText

(* C12: a non-numeric value in a required numeric field of one record      *)
(* never makes compute_kpis raise; a KPI record is returned for every      *)
(* input record and the bad record's derived fields are "no value".        *)
C12_AsStated ==
  (pc \notin {"calc_uploaded", "calc_validated"} /\ \E i \in Idx(raw_df) : Malformed(raw_df[i])) =>
     /\ raised # "TypeError"
     /\ raised = "" =>
          /\ Len(df) = Len(raw_df)
          /\ \A i \in Idx(df) :
                raw_df[i].fertiliser_kgN = BadText =>
                   IsNaN(df[i].n_per_ha) /\ IsNaN(df[i].emissions_per_ha)

-----------------------------------------------------------------------------
(* Properties of the required-column check (SpecEngine) *)

DashEnginePcs == {"dash_kpis", "dash_scored"}
CalcEnginePcs == {"calc_kpis", "calc_aggregated", "calc_scored", "calc_failed"}
FarmEnginePcs == {"farm_scored"}

EngineNotInvoked == df = <<>> /\ farm_df = <<>> /\ esg_df = <<>> /\ raised = ""

(* the engine runs only on uploads that passed the check, and an upload    *)
(* that lacks a required column ends stopped with the engine not invoked   *)
EngineOnlyAfterCheck ==
  /\ pc \in DashEnginePcs \cup FarmEnginePcs => DashRequired \subseteq columns
  /\ pc \in CalcEnginePcs => REQUIRED_INTERNAL_COLS \subseteq columns
  /\ pc \in {"dash_stopped", "farm_stopped"} =>
        ~(DashRequired \subseteq columns) /\ EngineNotInvoked
  /\ pc = "calc_stopped" =>
        ~(REQUIRED_INTERNAL_COLS \subseteq columns) /\ EngineNotInvoked

(* C13: when a required column is absent the missing column names are      *)
(* reported and the engine is never invoked on that batch; the engine runs *)
(* only after the required-column check has passed.                        *)
C13_AsStated ==
  /\ EngineOnlyAfterCheck
  /\ pc \in {"dash_stopped", "farm_stopped"} => reported = DashRequired \ columns
  /\ pc = "calc_stopped" =>
        reported = {REQUIRED_DISPLAY_LABELS(c) : c \in REQUIRED_INTERNAL_COLS \ columns}

-----------------------------------------------------------------------------
(* Properties of the narrative generator call (SpecCalc) *)

AiCallReturned == pc \in {"calc_insights", "calc_page_failed"} /\ filtered_esg # <<>>

(* C14: a failure of the narrative generator never aborts the dashboard:   *)
(* after the call of generate_ai_insights the calling layer holds a        *)
(* non-empty list of messages and no exception has ended the page.         *)
C14_AsStated ==
  AiCallReturned => raised = "" /\ pc = "calc_insights" /\ insights # <<>>

-----------------------------------------------------------------------------
(* Properties of the grouping (SpecEngine) *)

NoTwoShare(t, key(_)) == \A m, n \in Idx(t) : key(t[m]) = key(t[n]) => m = n

(* one aggregate row per grouping key of the code, none shared: the key is *)
(* (farm_id, farm_name, year) in aggregate_to_farm_level and farm_id in    *)
(* the dashboard's compute_esg_scores                                      *)
OneRowPerCodeKey ==
  /\ pc \in {"calc_aggregated", "calc_scored", "calc_selected", "calc_no_data"} =>
        /\ {FarmKey(farm_df[n]) : n \in Idx(farm_df)} =
             {FarmKey(df[i]) : i \in {j \in Idx(df) : KeyPresent(FarmKey(df[j]))}}
        /\ NoTwoShare(farm_df, FarmKey)
  /\ pc = "dash_scored" =>
        /\ {esg_df[n].farm_id : n \in Idx(esg_df)} = {df[i].farm_id : i \in Idx(df)}
        /\ NoTwoShare(esg_df, LAMBDA r : r.farm_id)

(* C15: the aggregate has exactly one row per distinct grouping key of the *)
(* records and no two rows share a key, so selecting a farm identifier and *)
(* year from the aggregate yields at most one row.                         *)
C15_AsStated ==
  /\ OneRowPerCodeKey
  /\ pc \in {"calc_aggregated", "calc_scored"} =>
        NoTwoShare(farm_df, LAMBDA r : <<r.farm_id, r.year>>)
  /\ pc \in {"calc_selected", "calc_no_data", "calc_insights", "calc_page_failed"} =>
        Len(filtered_esg) <= 1

-----------------------------------------------------------------------------
(* Properties of the aggregation (SpecEngine) *)

CalcAggregatedPcs ==
  {"calc_aggregated", "calc_scored", "calc_selected", "calc_no_data", "calc_page_failed"}

(* the rows of the KPI table that belong to an aggregate row *)
CalcGroupOf(row) == {i \in Idx(df) : FarmKey(df[i]) = FarmKey(row)}
DashGroupOf(row) == {i \in Idx(df) : df[i].farm_id = row.farm_id}

(* the sum over the rows i, i+1, ... of the group, in table order, with a  *)
(* missing value counted as zero                                           *)
RECURSIVE ZeroFilledSum(_, _, _, _)
ZeroFilledSum(t, c, G, i) ==
  IF i > Len(t) THEN Num(0)
  ELSE Add(IF i \in G /\ NotNa(t[i][c]) THEN t[i][c] ELSE Num(0),
           ZeroFilledSum(t, c, G, i + 1))

CalcExtensive ==
  {<<"total_farm_area_ha", "field_area_ha">>, <<"total_emissions", "total_emissions">>,
   <<"emissions_fertilizer", "emissions_fertilizer">>,
   <<"emissions_diesel", "emissions_diesel">>}

DashExtensive ==
  {"area_ha", "yield_tonnes", "total_emissions", "workers_total", "accidents_count"}

AllMissing(t, c, G) == \A i \in G : IsNaN(t[i][c])

(* C16: for every extensive column and every group the aggregate value is  *)
(* the sum of the group's values with each missing value counted as zero;  *)
(* a group whose values are all missing sums to 0, not "no value".         *)
C16_SumsCountMissingAsZero ==
  /\ pc \in CalcAggregatedPcs =>
        \A n \in Idx(farm_df) : \A e \in CalcExtensive :
           LET G == CalcGroupOf(farm_df[n])
           IN  /\ farm_df[n][e[1]] = ZeroFilledSum(df, e[2], G, 1)
               /\ AllMissing(df, e[2], G) => farm_df[n][e[1]] = Num(0)
  /\ pc = "dash_scored" =>
        \A n \in Idx(esg_df) : \A c \in DashExtensive :
           LET G == DashGroupOf(esg_df[n])
           IN  /\ esg_df[n][c] = ZeroFilledSum(df, c, G, 1)
               /\ AllMissing(df, c, G) => esg_df[n][c] = Num(0)

C16_Witness ==
  /\ pc = "dash_scored"
  /\ \E n \in Idx(esg_df) :
        LET G == DashGroupOf(esg_df[n])
        IN  /\ \E i \in G : IsNaN(df[i].total_emissions)
            /\ \E i \in G : NotNa(df[i].total_emissions)
            /\ esg_df[n].total_emissions = Num(785)
  /\ \E n \in Idx(esg_df) :
        /\ AllMissing(df, "total_emissions", DashGroupOf(esg_df[n]))
        /\ esg_df[n].total_emissions = Num(0)

CalcIntensive ==
  {<<"n_per_ha", "n_per_ha">>, <<"p_per_ha", "p_per_ha">>, <<"k_per_ha", "k_per_ha">>,
   <<"emissions_per_ha", "emissions_per_ha">>,
   <<"labour_hours_per_ha", "labour_hours_per_ha">>,
   <<"pesticide_use_rate", "pesticide_applied_yes_no_binary">>,
   <<"irrigation_rate", "irrigation_applied_yes_no_binary">>,
   <<"livestock_presence", "livestock_present_yes_no_binary">>,
   <<"sfi_soil_compliance_rate", "sfi_soil_standard_yes_no_binary">>,
   <<"sfi_nutrient_compliance_rate", "sfi_nutrient_management_yes_no_binary">>,
   <<"sfi_hedgerow_compliance_rate", "sfi_hedgerows_yes_no_binary">>}

DashIntensive ==
  {"emissions_per_ha", "emissions_per_tonne", "n_per_ha", "water_per_tonne",
   "yield_per_ha", "female_share", "accidents_per_100_workers"}

CountPresent(t, c, G) == Cardinality({i \in G : NotNa(t[i][c])})

(* the unweighted mean of the group's non-missing values, "no value" when  *)
(* there is none                                                           *)
MeanOfPresent(t, c, G) ==
  IF CountPresent(t, c, G) = 0 THEN NaN
  ELSE Div(ZeroFilledSum(t, c, G, 1), Num(CountPresent(t, c, G)))

-----------------------------------------------------------------------------
(* Properties of the flag encoding (SpecEngine) *)

(* 1 for yes, true or 1 in any letter case, 0 for everything else *)
FlagEncoding(x) == IF x # NoText /\ Lower(x) \in YesWords THEN 1 ELSE 0

FlagRate(t, c, G) == Norm(Cardinality({i \in G : FlagEncoding(t[i][c]) = 1}), Cardinality(G))

InUnitInterval(x) == Le(Num(0), x) /\ Le(x, Num(1))

(* every flag cell is encoded as FlagEncoding says and every group's rate   *)
(* is the mean of the encodings, whenever the encoding step returns        *)
FlagsEncodedWhenReturned ==
  /\ pc \in {"calc_kpis"} \cup CalcAggregatedPcs =>
        \A i \in Idx(df) : \A c \in YesNoSet \cap columns :
           df[i][BinaryName(c)] = Num(FlagEncoding(raw_df[i][c]))
  /\ pc \in CalcAggregatedPcs =>
        \A n \in Idx(farm_df) :
           LET G == CalcGroupOf(farm_df[n])
           IN  /\ farm_df[n].pesticide_use_rate = FlagRate(raw_df, "pesticide_applied_yes_no", G)
               /\ farm_df[n].sfi_soil_compliance_rate =
                     FlagRate(raw_df, "sfi_soil_standard_yes_no", G)
               /\ farm_df[n].sfi_hedgerow_compliance_rate =
                     FlagRate(raw_df, "sfi_hedgerows_yes_no", G)
               /\ InUnitInterval(farm_df[n].pesticide_use_rate)
               /\ InUnitInterval(farm_df[n].sfi_soil_compliance_rate)
               /\ InUnitInterval(farm_df[n].sfi_hedgerow_compliance_rate)
  /\ pc = "dash_scored" =>
        \A n \in Idx(esg_df) :
           \A c \in {GovColumnList[j] : j \in Idx(GovColumnList)} \cap columns :
              /\ esg_df[n][c] = FlagRate(raw_df, c, DashGroupOf(esg_df[n]))
              /\ InUnitInterval(esg_df[n][c])

(* C18: every flag cell is encoded 1 for yes, true or 1 (any case) and 0   *)
(* for everything else, missing cells included, without raising, and the   *)
(* group's rate is the mean of the encodings, a value in [0, 1].           *)
C18_AsStated ==
  /\ raised # "AttributeError"
  /\ FlagsEncodedWhenReturned

-----------------------------------------------------------------------------
(* Properties of the aggregation under reordering (SpecEngine) *)

(* the table with the records at positions a and b exchanged; every       *)
(* reordering of a table is a chain of such exchanges, and every reordered *)
(* table is itself the KPI table of the reordered upload                   *)
Swapped(t, a, b) ==
  [i \in Idx(t) |-> IF i = a THEN t[b] ELSE IF i = b THEN t[a] ELSE t[i]]

(* the sums of aggregate_to_farm_level by grouping key, as returned and as *)
(* its grouping computes them for a table                                  *)
CalcSumsReturned(agg) ==
  {<<FarmKey(agg[n]), agg[n].total_farm_area_ha, agg[n].total_emissions,
     agg[n].emissions_fertilizer, agg[n].emissions_diesel>> : n \in Idx(agg)}

CalcSums(t) ==
  LET keys == GroupKeysCalc(t)
  IN  {LET G == {i \in Idx(t) : FarmKey(t[i]) = keys[n]}
       IN  <<keys[n], GroupSum(t, "field_area_ha", G), GroupSum(t, "total_emissions", G),
             GroupSum(t, "emissions_fertilizer", G), GroupSum(t, "emissions_diesel", G)>> :
       n \in Idx(keys)}

(* the sums of the dashboard's grouping by farm, as returned and as its    *)
(* grouping computes them for a table                                      *)
DashSumsReturned(agg) ==
  {<<agg[n].farm_id, agg[n].area_ha, agg[n].yield_tonnes, agg[n].total_emissions,
     agg[n].workers_total, agg[n].accidents_count>> : n \in Idx(agg)}

DashSums(t) ==
  LET keys == GroupKeysDashboard(t)
  IN  {LET G == GroupOf(t, keys[n])
       IN  <<keys[n], GroupSum(t, "area_ha", G), GroupSum(t, "yield_tonnes", G),
             GroupSum(t, "total_emissions", G), GroupSum(t, "workers_total", G),
             GroupSum(t, "accidents_count", G)>> :
       n \in Idx(keys)}

(* C19: for every group, every aggregated sum is the same for every        *)
(* permutation of the order of the input KPI records: exchanging any two   *)
(* records of the batch changes no group's sums.                           *)
C19_SumsIgnoreRowOrder ==
  /\ pc = "calc_aggregated" =>
        LET returned == CalcSumsReturned(farm_df)
        IN  /\ CalcSums(df) = returned
            /\ \A a, b \in Idx(df) : a < b => CalcSums(Swapped(df, a, b)) = returned
  /\ pc = "dash_scored" =>
        LET returned == DashSumsReturned(esg_df)
        IN  /\ DashSums(df) = returned
            /\ \A a, b \in Idx(df) : a < b => DashSums(Swapped(df, a, b)) = returned

C19_Witness ==
  /\ pc = "calc_aggregated"
  /\ Len(df) = 3
  /\ \E n \in Idx(farm_df) :
        LET G == CalcGroupOf(farm_df[n])
        IN  /\ Cardinality(G) >= 2
            /\ \E i, j \in G : i < j /\ df[i].total_emissions = Num(1704)
                                     /\ df[j].total_emissions = Num(685)
            /\ farm_df[n].total_emissions = Num(2389)

-----------------------------------------------------------------------------
(* Properties of the categorical governance score (SpecFarm) *)

(* the certification text of an uploaded row, missing when the column is   *)
(* not in the upload                                                       *)
SchemeOf(r) ==
  IF "certification_scheme" \in DOMAIN r THEN r.certification_scheme ELSE NoText

NoScheme(x) == x \in {NoText, "", "None"}

(* C20: the governance score is decided by the certification text alone:   *)
(* 100 for a scheme containing organic or leaf, 80 for one containing red, *)
(* 60 for any other non-empty scheme, and 40 for no scheme (the value      *)
(* None, empty, or missing).                                               *)
C20_AsStated ==
  pc = "farm_scored" =>
     \A i \in Idx(df) :
        LET x == SchemeOf(raw_df[i])
            text == Lower(x)
        IN  df[i].gov_score =
              (IF NoScheme(x) THEN Num(40)
               ELSE IF Contains(text, "organic") \/ Contains(text, "leaf") THEN Num(100)
               ELSE IF Contains(text, "red") THEN Num(80)
               ELSE Num(60))

-----------------------------------------------------------------------------
(* Properties of the score ranges (SpecEngine) *)

InScoreRange(x) == Le(Num(0), x) /\ Le(x, Num(100))

(* C21: for every record of every non-empty batch each of the E, S and G   *)
(* scores lies in [0, 100], and so does the ESG score.                     *)
C21_AsStated ==
  /\ pc \in {"calc_scored", "calc_selected", "calc_no_data", "calc_page_failed"} =>
        \A n \in Idx(esg_df) :
           /\ InScoreRange(esg_df[n].e_score)
           /\ InScoreRange(esg_df[n].s_score)
           /\ InScoreRange(esg_df[n].g_score)
           /\ InScoreRange(esg_df[n].esg_score)
  /\ pc = "farm_scored" =>
        \A i \in Idx(df) :
           /\ InScoreRange(df[i].env_score)
           /\ InScoreRange(df[i].soc_score)
           /\ InScoreRange(df[i].gov_score)
           /\ InScoreRange(df[i].esg_score)

-----------------------------------------------------------------------------
(* Properties of the percentile rank (SpecPct) *)

(* the rank positions 1..n that the records tied with record i occupy when *)
(* the non-missing values are put in ascending order                       *)
RankPositions(s, i) ==
  LET below == Cardinality({j \in DropNa(s) : Lt(s[j], s[i])})
  IN  (below + 1) .. (below + TiesOf(s, i))

RECURSIVE SumOfInts(_)
SumOfInts(S) ==
  IF S = {} THEN 0 ELSE LET x == CHOOSE y \in S : TRUE IN x + SumOfInts(S \ {x})

(* the average-rank fractional rank: the mean of the tied rank positions   *)
(* over the number of ranked records                                       *)
FractionalRank(s, i) ==
  Norm(SumOfInts(RankPositions(s, i)), TiesOf(s, i) * Cardinality(DropNa(s)))

DirectedScore(rank, hib) ==
  IF hib THEN Mul(rank, Num(100)) ELSE Mul(Sub(Num(1), rank), Num(100))

(* C22 as stated: on a varying column the score of a non-missing record is *)
(* exactly rank * 100, or (1 - rank) * 100 when lower is better.           *)
C22_AsStated ==
  PctDoneVarying =>
     \A i \in DropNa(series) :
        score[i] = DirectedScore(FractionalRank(series, i), higher_is_better)

(* C22 amended: on a varying column the rank of a non-missing record is    *)
(* its average-rank fractional rank, a value in (0, 1], and its score is   *)
(* rank * 100 (higher is better) or (1 - rank) * 100 (lower is better)     *)
(* rounded to one decimal place.                                           *)
C22_RoundedRankScore ==
  PctDoneVarying =>
     \A i \in DropNa(series) :
        LET rank == FractionalRank(series, i)
        IN  /\ Lt(Num(0), rank) /\ Le(rank, Num(1))
            /\ score[i] = Round1(DirectedScore(rank, higher_is_better))

C22_Witness ==
  /\ pc = "pct_done"
  /\ higher_is_better
  /\ series = <<Num(100), Num(100), Num(300)>>
  /\ score = <<Num(50), Num(50), Num(100)>>

-----------------------------------------------------------------------------
(* Properties of the frame of compute_esg_scores (SpecCalc) *)

ScoreColumns == {"e_score", "s_score", "g_score", "esg_score"}

CalcScoredPcs == {"calc_scored", "calc_selected", "calc_no_data", "calc_page_failed"}

(* C23: compute_esg_scores returns exactly one scored row per aggregate    *)
(* row, in the same position, and every input column of each row keeps its *)
(* input value: the only change is the added E, S, G and ESG columns.      *)
C23_ScoresOnlyAdded ==
  pc \in CalcScoredPcs =>
     /\ Len(esg_df) = Len(farm_df)
     /\ \A n \in Idx(farm_df) :
           /\ DOMAIN esg_df[n] = DOMAIN farm_df[n] \cup ScoreColumns
           /\ DOMAIN farm_df[n] \cap ScoreColumns = {}
           /\ \A c \in DOMAIN farm_df[n] : esg_df[n][c] = farm_df[n][c]

C23_Witness ==
  /\ pc = "calc_scored"
  /\ Len(farm_df) = 3
  /\ Len(esg_df) = 3
  /\ \E n \in Idx(esg_df) :
        /\ IsNaN(esg_df[n].esg_score)
        /\ IsNaN(farm_df[n].labour_hours_per_ha)
        /\ esg_df[n].farm_id = farm_df[n].farm_id

-----------------------------------------------------------------------------
(* Properties of the coverage of the aggregation (SpecCalc) *)

(* C24: aggregation loses no record: every KPI record is counted in        *)
(* exactly one aggregate row, records with a missing farm_id, farm_name or *)
(* year included, so the aggregate total areas add up to the area of all   *)
(* input records.                                                          *)
C24_AsStated ==
  pc \in CalcAggregatedPcs =>
     /\ \A i \in Idx(df) :
           Cardinality({n \in Idx(farm_df) : i \in CalcGroupOf(farm_df[n])}) = 1
     /\ ZeroFilledSum(farm_df, "total_farm_area_ha", Idx(farm_df), 1) =
          ZeroFilledSum(df, "field_area_ha", Idx(df), 1)

-----------------------------------------------------------------------------
(* Properties of the order of the percentile scores (SpecPct) *)

(* C25: percentile_score preserves order within a batch: when higher is    *)
(* better a record with a strictly greater value never scores lower than a *)
(* record with a smaller value, when lower is better never higher, and     *)
(* records with equal values score the same.                               *)
C25_OrderPreserving ==
  pc = "pct_done" =>
     \A i, j \in DropNa(series) :
        /\ Lt(series[j], series[i]) =>
              IF higher_is_better THEN Ge(score[i], score[j]) ELSE Le(score[i], score[j])
        /\ series[i] = series[j] => score[i] = score[j]

C25_Witness ==
  /\ pc = "pct_done"
  /\ ~higher_is_better
  /\ series = <<Num(300), Num(100), Num(100)>>
  /\ score = <<Num(0), Num(50), Num(50)>>

-----------------------------------------------------------------------------
(* Properties of the scoring under reordering (SpecScoring) *)

(* the table with the neighbouring records a and a + 1 exchanged; every    *)
(* permutation of the rows is a chain of such exchanges, and every         *)
(* reordered batch is itself a batch of the model                          *)
SwappedNext(t, a) == Swapped(t, a, a + 1)

CalcScoresByFarm(scored) ==
  {<<FarmKey(scored[n]), scored[n].e_score, scored[n].s_score, scored[n].g_score,
     scored[n].esg_score>> : n \in Idx(scored)}

DashScoresByFarm(scored) ==
  {<<scored[n].farm_id, scored[n].E_score, scored[n].S_score, scored[n].G_score,
     scored[n].ESG_score>> : n \in Idx(scored)}

(* C26: scoring does not depend on the order of the batch: exchanging two  *)
(* neighbouring rows of the table passed to compute_esg_scores leaves the  *)
(* E, S, G and ESG scores of every farm the same.                          *)
C26_ScoresIgnoreRowOrder ==
  /\ pc = "calc_scored" =>
        \A a \in 1 .. (Len(farm_df) - 1) :
           CalcScoresByFarm(compute_esg_scores(SwappedNext(farm_df, a), AggColumns)) =
             CalcScoresByFarm(esg_df)
  /\ pc = "dash_scored" =>
        \A a \in 1 .. (Len(df) - 1) :
           DashScoresByFarm(compute_esg_scores_dashboard(SwappedNext(df, a), columns)) =
             DashScoresByFarm(esg_df)

C26_Witness ==
  /\ pc = "dash_scored"
  /\ Len(df) = 3
  /\ Len(esg_df) = 2
  /\ df[1].farm_id # df[2].farm_id
  /\ df[2].farm_id # df[3].farm_id
  /\ \E n \in Idx(esg_df) : esg_df[n].E_score \notin {Num(50), NaN}

-----------------------------------------------------------------------------
(* Properties of the callers' tables (SpecFrames) *)

(* the steps in which a function is handed a table as its argument; the   *)
(* KPI table is grouped by aggregate_to_farm_level in app.py and by        *)
(* compute_esg_scores itself in the dashboard                              *)
KpisCalled == pc \in {"calc_validated", "dash_validated"}
GroupingCalled == pc \in {"calc_kpis", "dash_kpis"}
ScoresCalled == pc = "calc_aggregated"
MergeCalled == pc = "merge_call"

(* C27: compute_kpis, aggregate_to_farm_level, merge_optional_data and     *)
(* compute_esg_scores leave the table the caller passed unchanged: across  *)
(* every call, and so after any sequence of calls, the argument has the    *)
(* same rows, columns and values as before.                                *)
C27_CallerTablesUnchanged ==
  [][/\ KpisCalled => raw_df' = raw_df
     /\ GroupingCalled => df' = df /\ raw_df' = raw_df
     /\ ScoresCalled => farm_df' = farm_df /\ df' = df /\ raw_df' = raw_df
     /\ MergeCalled => farm_df' = farm_df /\ optional_df' = optional_df]_vars

(* a run of app.py through all three calls on a record with area 0: the    *)
(* zero is replaced and columns are added in the returned tables only      *)
C27_Witness ==
  /\ pc = "calc_scored"
  /\ \E i \in Idx(raw_df) :
        /\ raw_df[i].field_area_ha = Num(0)
        /\ df[i].field_area_ha = NaN
        /\ "n_per_ha" \notin DOMAIN raw_df[i]
        /\ "n_per_ha" \in DOMAIN df[i]
  /\ Len(farm_df) >= 1
  /\ \A n \in Idx(farm_df) : "e_score" \notin DOMAIN farm_df[n]
  /\ \A n \in Idx(esg_df) : "e_score" \in DOMAIN esg_df[n]

-----------------------------------------------------------------------------
(* Properties of merge_optional_data (SpecMerge) *)

(* the base rows that have no optional row with their farm and year *)
WithoutOptionalData(i) ==
  \A j \in Idx(optional_df[1]) : MergeKey(optional_df[1][j]) # MergeKey(farm_df[i])

(* C28: merge_optional_data keeps the base table intact: with the optional *)
(* table absent or empty it returns the base table unchanged, and          *)
(* otherwise the result has exactly one row per base row, in which every   *)
(* base column keeps its value and a base farm-year without optional data  *)
(* has no value in the optional columns.                                   *)
C28_BaseKept ==
  pc = "merge_done" =>
     IF optional_df = <<>> \/ optional_df[1] = <<>>
     THEN merged = farm_df
     ELSE /\ Len(merged) = Len(farm_df)
          /\ \A i \in Idx(farm_df) :
                /\ \A c \in DOMAIN farm_df[i] : merged[i][c] = farm_df[i][c]
                /\ WithoutOptionalData(i) =>
                      \A c \in OptionalAggCols : merged[i][c] = NaN

(* three base rows, the first two with optional data and the last without *)
C28_Witness ==
  /\ pc = "merge_done"
  /\ Len(farm_df) = 3
  /\ optional_df # <<>>
  /\ Len(optional_df[1]) = 3
  /\ Len(merged) = 3
  /\ merged[1].soil_ph = Num(100)
  /\ merged[1].cover_crop_planted_yes_no = Norm(1, 2)
  /\ merged[2].water_volume_m3 = Num(300)
  /\ WithoutOptionalData(3)
  /\ merged[3].soil_ph = NaN
  /\ merged[3].total_farm_area_ha = Num(5)

-----------------------------------------------------------------------------
(* Properties of the emissions engine (SpecReport) *)

(* the table with every missing quantity replaced by 0 *)
ZeroFilled(t) == [i \in Idx(t) |-> [c \in DOMAIN t[i] |-> IF IsNaN(t[i][c]) THEN Num(0) ELSE t[i][c]]]

IsNumber(x) == NotNa(x) /\ IsFinite(x)

(* C29: _calculate_emissions never divides by zero and is additive: every  *)
(* figure is a number, total emissions equal scope 1 plus scope 3, the     *)
(* total intensity equals the scope 1 plus the scope 3 intensity, missing  *)
(* quantities count as zero, and with a total area that is not positive    *)
(* (or an empty table) all three intensities are 0.                        *)
C29_EmissionsAdditive ==
  pc = "report_done" =>
     LET t == activity_for_emissions(df)
     IN  /\ IsNumber(results.scope1_total_tco2e)
         /\ IsNumber(results.scope3_total_tco2e)
         /\ IsNumber(results.total_emissions_tco2e)
         /\ IsNumber(results.total_area_ha)
         /\ IsNumber(results.scope1_intensity_kg_per_ha)
         /\ IsNumber(results.scope3_intensity_kg_per_ha)
         /\ IsNumber(results.intensity_kg_per_ha)
         /\ results.total_emissions_tco2e =
               Add(results.scope1_total_tco2e, results.scope3_total_tco2e)
         /\ results.intensity_kg_per_ha =
               Add(results.scope1_intensity_kg_per_ha, results.scope3_intensity_kg_per_ha)
         /\ results = calculate_emissions(ZeroFilled(t))
         /\ results.total_area_ha = SumSkipNa(Col(t, "Field Area (ha)"))
         /\ (t = <<>> \/ ~Lt(Num(0), results.total_area_ha)) =>
               /\ results.scope1_intensity_kg_per_ha = Num(0)
               /\ results.scope3_intensity_kg_per_ha = Num(0)
               /\ results.intensity_kg_per_ha = Num(0)

(* two fields of 20 and 5 ha, one of them without a diesel figure *)
C29_Witness ==
  /\ pc = "report_done"
  /\ Len(df) = 2
  /\ \E i \in Idx(df) : IsNaN(df[i].diesel_litres)
  /\ results.total_area_ha = Num(25)
  /\ results.scope1_total_tco2e = Norm(268, 1000)
  /\ results.scope3_total_tco2e = Norm(2160, 1000)
  /\ results.intensity_kg_per_ha = Norm(2428, 25)

-----------------------------------------------------------------------------
(* Properties of the SFI land parcels (SpecReport) *)

SfiPlanBuilt == pc \in {"report_parcels", "report_done"}

InPercentRange(x) == Le(Num(0), x) /\ Le(x, Num(100))

AreaPercentages(summary) ==
  {summary.cover_crop_area_pct, summary.reduced_tillage_area_pct,
   summary.soil_test_area_pct, summary.fields_with_trees_pct}

(* one parcel per row, the number of fields, and the percentages in range *)
ParcelsCountedAndPercentagesInRange ==
  SfiPlanBuilt =>
     /\ Len(sfi_plan.land_parcels) = Len(df)
     /\ sfi_plan.summary.num_fields = Len(df)
     /\ \A x \in AreaPercentages(sfi_plan.summary) : InPercentRange(x)
     /\ ~Lt(Num(0), sfi_plan.summary.total_area_ha) =>
           \A x \in AreaPercentages(sfi_plan.summary) : x = Num(0)

(* C30: _build_sfi_land_parcels returns one parcel per input row, a        *)
(* summary whose total_area_ha equals the sum of the parcels'              *)
(* field_area_ha and whose num_fields is the number of rows, and each of   *)
(* the four area percentages lies in [0, 100] (0 when the total area is    *)
(* not positive), also for rows with a missing area.                       *)
C30_AsStated ==
  /\ ParcelsCountedAndPercentagesInRange
  /\ SfiPlanBuilt =>
        /\ IsNumber(sfi_plan.summary.total_area_ha)
        /\ Eq(sfi_plan.summary.total_area_ha,
              SumSet(Col(sfi_plan.land_parcels, "field_area_ha"),
                     Idx(sfi_plan.land_parcels)))

====
